---- MODULE Spec2Model ----
(***************************************************************************)
(* Threefolio: the trail-driven grass deformation field                    *)
(* (src/src/environment/grass.js, class Grass) and the game loop that      *)
(* drives it (src/src/core/main.js, gameLoop).                             *)
(*                                                                         *)
(* Units.  Time is counted in ticks of 0.1 s and coordinates in units of   *)
(* 0.1, so SAMPLE_INTERVAL = 0.1 s is 1 tick, HOLD_TIME = 3.0 s is 30      *)
(* ticks, the pruning margin 0.2 s is 2 ticks and MOVE_THRESHOLD_SQ = 0.09 *)
(* is 9 squared units.  Slot capacities are counted in units of 20 slots   *)
(* times SlotUnit: the code's 40/20/20 (mobile) and 80/40/40 (desktop)     *)
(* become 2/1/1 and 4/2/2 times SlotUnit.                                  *)
(*                                                                         *)
(* The vertex shader (positionNode) works on lengths in units of 0.001     *)
(* (PosScale of them in a coordinate unit) and on falloffs in hundredths   *)
(* (FalloffOne is 1.0); a weight, the product of two falloffs, and the     *)
(* components of a contribution are in units of 0.0001.                    *)
(*                                                                         *)
(* The echo system (src/src/echoSystem.js) counts an opacity in units of   *)
(* 1/120 and its buffer limit of 200 entries in units of 100 times         *)
(* BufferUnit.                                                             *)
(*                                                                         *)
(* The state manager (src/src/stateManager.js) counts movementIntensity    *)
(* and idleTimer in units of 0.05 (a tick is two of them), a speed in      *)
(* tenths, a distance in hundredths, a height in whole units and           *)
(* roomEnergy in units of 0.005 (RoomOne of them is 1.0).                  *)
(***************************************************************************)
EXTENDS Integers, Sequences, FiniteSets, TLC

VARIABLES
    isMobile,        \* the device test of setMaterial
    time,            \* the time argument of the latest update call
    timeNode,        \* this.timeNode.value
    playerTrail,     \* this._playerTrail
    cubeTrail,       \* this._cubeTrail
    lastSampleTime,  \* this._lastSampleTime
    cubeLastPos,     \* this._cubeLastPos (Null until first set)
    trailPos,        \* this.trailPosNode.array  (2 * TRAIL_SIZE numbers)
    trailAges,       \* this.trailAgesNode.array (TRAIL_SIZE numbers)
    args,            \* the arguments of the latest update call
    ret,             \* how the latest update call ended
    footprints,      \* history: every entry ever pushed on _playerTrail, in order
    needsUpdate,     \* trailPosNode.needsUpdate and trailAgesNode.needsUpdate
    written,         \* slots written by the upload of the latest call (gpuSlot at its end)
    uploadTime,      \* history: the time argument of the latest call whose upload ran
    cubePos,         \* this.cubePosNode.array (2 * CUBE_COUNT numbers)
    bladePosition,   \* the surface point of the latest shader run (Null: none since the last call)
    contributions,   \* per slot: spatialFalloff, timeFalloff, weight, contribution of that run
    totalPush,       \* totalPush at the end of the trail loop of that run
    cubePush,        \* cubePush at the end of the cube loop of that run
    elapsedTime,     \* gameLoop: now = clock.elapsedTime of the current frame
    pc,              \* gameLoop: phases of the current frame already run (0: between frames)
    frameLog,        \* history: the phases of the latest frame, in the order they ran
    movementIntensity,      \* state.movementIntensity
    idleTimer,              \* state.idleTimer
    totalDistanceTravelled, \* state.totalDistanceTravelled
    maxHeightReached,       \* state.maxHeightReached
    roomEnergy,             \* state.roomEnergy
    phase,                  \* state.phase
    stateElapsedTime,       \* state.elapsedTime
    ending,                 \* main.js: let ending
    speedArg,               \* the speed argument of the latest updateState call
    echoes,          \* EchoSystem: this.echoes (mesh: the identity of the echo's objects)
    spawned,         \* history: the number of echoes spawnManualEcho has created
    sceneMeshes,     \* the echo meshes the scene holds
    worldBodies,     \* the echo rigid bodies the physics world holds
    cleanups,        \* history, per echo: how often each cleanup call ran on its objects
    held,               \* the keys that are physically down
    event,              \* history: the latest key event or frame
    KEYS,               \* player.js: KEYS
    wantsToSpawnGhost,  \* player.wantsToSpawnGhost (FALSE also for undefined: not truthy)
    physicsAccumulator, \* main.js: physicsAccumulator, in halves of TIMESTEP
    presses,            \* history: the presses of KeyE so far
    calls,              \* history: the calls of the sub-step loop of the latest frame
    moved,              \* history: a Player.update call of the latest frame built a move direction
    punched,            \* history: a Player.update call of the latest frame punched
    punchCooldown,      \* player._punchCooldown, in halves of TIMESTEP
    pressedEnter,       \* SpawnerZone: this.pressedEnter
    enterConsumed,      \* SpawnerZone: this._enterConsumed
    spawnerInside,      \* SpawnerZone: this.isPlayerInside
    zoneCubes,          \* SpawnerZone: this.cubes.length
    holds,              \* history: the holds of Enter so far
    holdBatches,        \* history: the batches spawned during the latest hold of Enter
    inputState,         \* main.js: inputState
    isPossessingQueen,  \* main.js: let isPossessingQueen
    isFrozen,           \* player.isFrozen (FALSE also for undefined: not true)
    cameraMode,         \* the latest sceneSetup.setCameraMode argument ("none": no call yet)
    chessInside,        \* chessZone.isPlayerInside
    wallCubes,       \* cubeWall.cubes: the rigid body of each entry
    translation,     \* per rigid body of the wall: its translation (x, z)
    cubeLastOwner,   \* history, per index: the body whose position _cubeLastPos holds
    particleIndex,   \* ParticleSystem: this.particleIndex
    startTimes,      \* ParticleSystem: this.startTimes, the slots written so far
    emitted,         \* history: the index before, the count and the time of the latest emit
    joyOrigin,       \* mobileControls: joyOrigin (FALSE: null)
    activeKeys,      \* mobileControls: activeKeys
    fired,           \* history: the events fireKey dispatched for setKey, in order
    touch,           \* history: the latest joystick touch event
    cubeFirstPos,    \* history: the cube positions of the first update call that carried any
    cubeStartPos,    \* history: the positions _cubeLastPos was initialised to
    cubePushed       \* history: the indices a cube entry has been pushed for

\* the fields of Grass the recorder and packer work on
grassVars == <<isMobile, time, timeNode, playerTrail, cubeTrail, lastSampleTime,
               cubeLastPos, trailPos, trailAges, args, ret, footprints,
               needsUpdate, written, uploadTime, cubePos>>

\* what a run of the vertex shader leaves
shaderVars == <<bladePosition, contributions, totalPush, cubePush>>

\* the locals of gameLoop
loopVars == <<elapsedTime, pc, frameLog>>

\* the state manager's record and the ending flag of main.js
stateVars == <<movementIntensity, idleTimer, totalDistanceTravelled, maxHeightReached,
               roomEnergy, phase, stateElapsedTime, ending, speedArg>>

\* everything of the game around the grass
\* the echo system with the scene and the physics world it works on
echoVars == <<echoes, spawned, sceneMeshes, worldBodies, cleanups>>

\* the keyboard, the player's ghost flag and the sub-step accumulator
keyVars == <<held, event, KEYS, wantsToSpawnGhost, physicsAccumulator, presses,
             calls, moved, punched, punchCooldown>>

\* the spawner zone, the chess zone and the possession state of main.js
zoneVars == <<pressedEnter, enterConsumed, spawnerInside, zoneCubes, holds, holdBatches,
              inputState, isPossessingQueen, isFrozen, cameraMode, chessInside>>

\* the cube wall and its bodies in the physics world
wallVars == <<wallCubes, translation, cubeLastOwner>>

\* the particle system
particleVars == <<particleIndex, startTimes, emitted>>

\* the virtual joystick of mobileControls.js
mobileVars == <<joyOrigin, activeKeys, fired, touch>>

\* the history of the cube positions, kept by the calls of FirstSpec
firstVars == <<cubeFirstPos, cubeStartPos, cubePushed>>

gameVars == <<stateVars, echoVars, keyVars, zoneVars, wallVars, particleVars, mobileVars,
              firstVars>>

vars == <<grassVars, shaderVars, loopVars, gameVars>>

----------------------------------------------------------------------------
(* Bounds of the model *)

\* capacities: one unit stands for 20 slots of the code
SlotUnit == 1
\* longest cubePositions list
MaxCubes == 2
\* entries the cube trail may hold beyond CUBE_SLOTS in the model
MaxOverflow == 1
\* last tick of a run of Spec, PlayerSpec, CubeSpec; length of a burst of AgeSpec
MaxTime == 6
PlayerMaxTime == 4
CubeMaxTime == 4
AgeBurst == 2
\* footprints beyond PLAYER_SLOTS in a run of ScenarioSpec
ExtraFootprints == 5
\* FieldSpec: a burst of calls up to FieldBurst, then FadeSteps calls
\* FadeStride apart from HOLD_TIME on
FieldBurst == 2
FadeStride == 4
FadeSteps == 3
\* last tick of a run of FrameSpec
FrameMaxTime == 4
\* StateSpec: calls of every kind up to StateBurst ticks, then calls at the
\* speed of the latest of them up to StateMaxTime ticks
StateBurst == 3
StateMaxTime == 104
\* the echo buffer limit: one unit stands for 100 entries
BufferUnit == 1
\* InputSpec: presses of KeyE, holds of Enter, the longest frame in halves
\* of TIMESTEP, batches of cubes
MaxPresses == 2
MaxHolds == 2
MaxFrameDt == 4
MaxBatches == 3
\* EchoSpec: up to EchoOverflow echoes beyond MAX_BUFFER_SIZE, spawned in
\* the first EchoSpawnWindow ticks; the run goes on EchoSlack ticks beyond
\* the lifetime of the last
EchoOverflow == 1
EchoSpawnWindow == 3
EchoSlack == 40
\* EchoLiveSpec: up to LiveEchoes echoes
LiveEchoes == 2
\* last tick of a run of FirstSpec
FirstMaxTime == 3
\* StepSpec: the longest delta of the clock, in halves of TIMESTEP
MaxDelta == 15
\* punches that hit a cube
MaxHits == 1
\* particle emissions: calls with any count, calls in all
EmitBurst == 2
MaxEmits == 18
\* joystick: events fired
MaxFired == 5

----------------------------------------------------------------------------
(* Values *)

\* null / undefined argument or field
Null == <<>>

\* a coordinate that is NaN (or undefined)
NaN == -1000

IsNaN(v) == v = NaN

RECURSIVE SeqsUpTo(_, _)
SeqsUpTo(S, n) ==
    IF n = 0 THEN {<<>>}
    ELSE LET shorter == SeqsUpTo(S, n - 1)
         IN  shorter \cup {Append(s, x) : s \in {q \in shorter : Len(q) = n - 1}, x \in S}

\* Arguments of update.  A cubePositions argument is null or a non-empty
\* list.  The first cube is at one of three positions, 3 (squared: 9, the
\* threshold itself), 4 and 5 apart; the others at one of two, 4 apart.
PlayerPosSet == {<<5, 2>>, <<NaN, 2>>, <<5, NaN>>}
CubePosSet == {<<0, 0>>, <<3, 0>>, <<0, 4>>}
CubeListSet == {l \in SeqsUpTo(CubePosSet, MaxCubes) :
                   \A i \in 1..Len(l) : i > 1 => l[i] \in {<<0, 0>>, <<0, 4>>}}
FewCubeLists == {l \in SeqsUpTo({<<0, 0>>, <<0, 4>>}, MaxCubes) :
                    \A i \in 1..Len(l) : i > 1 => l[i] = <<0, 0>>}

\* Actors and surface points of the shader runs: footprints at (0, 0) and
\* (0.8, 0); blades at 0.5 and 0.3 from the first of them, on it, and where
\* the sentinel lies
FieldPosSet == {<<0, 0>>, <<8, 0>>}
PointSet == {<<5, 0>>, <<3, 0>>, <<0, 0>>, <<99999, 99999>>}

\* cubeWall.cubes.map(...): the wall keeps the cubes it was built with
WallLists == {l \in FewCubeLists : Len(l) = MaxCubes}

\* CubeWall.constructor: one entry per cube, in the order the cubes are
\* built; a rigid body is named by its number in that order
WallBodies == [i \in 1..MaxCubes |-> i]

----------------------------------------------------------------------------
(* Grass.setMaterial: configuration *)

TRAIL_SIZE == IF isMobile THEN 2 * SlotUnit ELSE 4 * SlotUnit
PLAYER_SLOTS == IF isMobile THEN SlotUnit ELSE 2 * SlotUnit
CUBE_SLOTS == IF isMobile THEN SlotUnit ELSE 2 * SlotUnit
HOLD_TIME == 30
FADE_TIME == 10
SENTINEL_POS == 99999
SENTINEL_AGE == 9999
CUBE_COUNT == 32

\* (variant of FlatCubePos: filled with the origin)
FlatCubePosZero == [i \in 1..(2 * CUBE_COUNT) |-> 0]

\* flatCubePos = new Array(CUBE_COUNT * 2).fill(99999)
FlatCubePos == [i \in 1..(2 * CUBE_COUNT) |-> SENTINEL_POS]

(* Grass.update: local constants *)
SAMPLE_INTERVAL == 1
MOVE_THRESHOLD_SQ == 9
PRUNE_MARGIN == 2
totalTime == HOLD_TIME + FADE_TIME

----------------------------------------------------------------------------
(* Grass.update: helpers *)

Entry(x, z, t) == [x |-> x, z |-> z, t |-> t]

\* (variant of AgeFilter: nothing is filtered out)
AgeFilterNone(trail, now) == trail

\* (variant of AgeFilter: the window ends with the hold time)
AgeFilterHoldOnly(trail, now) ==
    SelectSeq(trail, LAMBDA e : (now - e.t) < HOLD_TIME)

\* (variant of AgeFilter: the window without its 0.2 s margin)
AgeFilterNoMargin(trail, now) ==
    SelectSeq(trail, LAMBDA e : (now - e.t) < totalTime)

\* trail.filter(e => (time - e.t) < totalTime + 0.2)
AgeFilter(trail, now) ==
    SelectSeq(trail, LAMBDA e : (now - e.t) < totalTime + PRUNE_MARGIN)

\* (variant of SliceLast: slice(0, n), the oldest n entries)
SliceFirst(trail, n) ==
    IF Len(trail) > n THEN SubSeq(trail, 1, n) ELSE trail

\* if (trail.length > n) trail = trail.slice(-n)
SliceLast(trail, n) ==
    IF Len(trail) > n THEN SubSeq(trail, Len(trail) - n + 1, Len(trail)) ELSE trail

\* (variant of PlayerGate: >= instead of >)
PlayerGateInclusive(now, onGround) ==
    onGround /\ now - lastSampleTime >= SAMPLE_INTERVAL

\* onGround && time - this._lastSampleTime > SAMPLE_INTERVAL
PlayerGate(now, onGround) ==
    onGround /\ now - lastSampleTime > SAMPLE_INTERVAL

\* the body of the player branch: push, filter, slice
PlayerSample(trail, now, playerPos) ==
    SliceLast(AgeFilter(Append(trail, Entry(playerPos[1], playerPos[2], now)), now),
              PLAYER_SLOTS)

\* (variant of Moved: >= instead of >)
MovedInclusive(cube, last) ==
    LET dx == cube[1] - last[1]
        dz == cube[2] - last[2]
    IN  dx * dx + dz * dz >= MOVE_THRESHOLD_SQ

\* dx * dx + dz * dz > MOVE_THRESHOLD_SQ
Moved(cube, last) ==
    LET dx == cube[1] - last[1]
        dz == cube[2] - last[2]
    IN  dx * dx + dz * dz > MOVE_THRESHOLD_SQ

\* the for loop over cubePositions, from index i (1-based) on.  Reading
\* last.x of an index _cubeLastPos does not have raises a TypeError, which
\* leaves the loop with what has been pushed so far.
RECURSIVE CubeLoop(_, _, _, _, _)
CubeLoop(i, cubePositions, last, trail, now) ==
    IF i > Len(cubePositions) THEN [last |-> last, trail |-> trail, threw |-> FALSE]
    ELSE IF i > Len(last) THEN [last |-> last, trail |-> trail, threw |-> TRUE]
    ELSE IF Moved(cubePositions[i], last[i])
         THEN CubeLoop(i + 1, cubePositions,
                       [last EXCEPT ![i] = cubePositions[i]],
                       Append(trail, Entry(last[i][1], last[i][2], now)), now)
         ELSE CubeLoop(i + 1, cubePositions, last, trail, now)

\* the filter and slice that follow the loop
CubePrune(trail, now) == SliceLast(AgeFilter(trail, now), CUBE_SLOTS)

\* one of the two copy loops of the upload: entries i.. of trail go to slots
\* gpuSlot.. (0-based) while both last
RECURSIVE CopyTrail(_, _, _, _)
CopyTrail(buf, trail, i, now) ==
    IF i <= Len(trail) /\ buf.gpuSlot < TRAIL_SIZE
    THEN CopyTrail([pos     |-> [buf.pos EXCEPT ![buf.gpuSlot * 2 + 1] = trail[i].x,
                                                ![buf.gpuSlot * 2 + 2] = trail[i].z],
                    ages    |-> [buf.ages EXCEPT ![buf.gpuSlot + 1] = now - trail[i].t],
                    gpuSlot |-> buf.gpuSlot + 1],
                   trail, i + 1, now)
    ELSE buf

\* (variant of FillSentinel: the remaining slots are left as they are)
FillSentinelNone(buf) == buf

\* the last loop of the upload: sentinels in every remaining slot
RECURSIVE FillSentinel(_)
FillSentinel(buf) ==
    IF buf.gpuSlot < TRAIL_SIZE
    THEN FillSentinel([pos     |-> [buf.pos EXCEPT ![buf.gpuSlot * 2 + 1] = SENTINEL_POS,
                                                   ![buf.gpuSlot * 2 + 2] = SENTINEL_POS],
                       ages    |-> [buf.ages EXCEPT ![buf.gpuSlot + 1] = SENTINEL_AGE],
                       gpuSlot |-> buf.gpuSlot + 1])
    ELSE buf

\* (variant of Pack: the cube trail is copied first)
PackCubesFirst(pos, ages, pTrail, cTrail, now) ==
    FillSentinel(
        CopyTrail(
            CopyTrail([pos |-> pos, ages |-> ages, gpuSlot |-> 0], cTrail, 1, now),
            pTrail, 1, now))

\* the GPU upload: player entries first, cubes get whatever is left
Pack(pos, ages, pTrail, cTrail, now) ==
    FillSentinel(
        CopyTrail(
            CopyTrail([pos |-> pos, ages |-> ages, gpuSlot |-> 0], pTrail, 1, now),
            cTrail, 1, now))

----------------------------------------------------------------------------
(* Grass.update *)

\* if (!playerPos)
Missing(playerPos) == playerPos = Null

\* (variant of EarlyReturn: the sample time is stamped before the check)
EarlyReturnStamped(now) ==
    /\ ret' = "return"
    /\ lastSampleTime' = now
    /\ written' = 0
    /\ UNCHANGED <<playerTrail, cubeTrail, cubeLastPos, trailPos, trailAges, footprints,
                   needsUpdate, uploadTime>>

\* return: nothing after the timeNode assignment runs
EarlyReturn(now) ==
    /\ ret' = "return"
    /\ written' = 0
    /\ UNCHANGED <<playerTrail, cubeTrail, lastSampleTime, cubeLastPos,
                   trailPos, trailAges, footprints, needsUpdate, uploadTime>>

\* no run of the shader has seen the arrays as this call leaves them
NotEvaluated ==
    /\ bladePosition' = Null
    /\ contributions' = <<>>
    /\ totalPush' = <<0, 0>>
    /\ cubePush' = <<0, 0>>

\* the whole call.  ret tells how it ended: "return" (the early return),
\* "threw" (a TypeError left the cube loop) or "done" (the upload ran).
\* Nothing in it assigns this.cubePosNode.
Update(now, playerPos, onGround, cubePositions) ==
    /\ time' = now
    /\ NotEvaluated
    /\ UNCHANGED cubePos
    /\ timeNode' = now * 2
    /\ args' = [playerPos |-> playerPos, onGround |-> onGround,
                cubePositions |-> cubePositions]
    /\ UNCHANGED isMobile
    /\ IF Missing(playerPos)
       THEN EarlyReturn(now)
       ELSE LET sampled == PlayerGate(now, onGround)
                pTrail  == IF sampled THEN PlayerSample(playerTrail, now, playerPos)
                           ELSE playerTrail
                loop    == IF cubePositions = Null
                           THEN [last |-> cubeLastPos, trail |-> cubeTrail, threw |-> FALSE]
                           ELSE CubeLoop(1, cubePositions,
                                         IF cubeLastPos = Null THEN cubePositions
                                         ELSE cubeLastPos,
                                         cubeTrail, now)
                cTrail  == IF cubePositions = Null \/ loop.threw THEN loop.trail
                           ELSE CubePrune(loop.trail, now)
                buf     == Pack(trailPos, trailAges, pTrail, cTrail, now)
            IN  /\ Len(cTrail) <= CUBE_SLOTS + MaxOverflow
                /\ playerTrail' = pTrail
                /\ lastSampleTime' = IF sampled THEN now ELSE lastSampleTime
                /\ footprints' = IF sampled
                                 THEN Append(footprints, Entry(playerPos[1], playerPos[2], now))
                                 ELSE footprints
                /\ cubeLastPos' = loop.last
                /\ cubeTrail' = cTrail
                /\ IF loop.threw
                   THEN /\ ret' = "threw"
                        /\ written' = 0
                        /\ UNCHANGED <<trailPos, trailAges, needsUpdate, uploadTime>>
                   ELSE /\ ret' = "done"
                        /\ trailPos' = buf.pos
                        /\ trailAges' = buf.ages
                        /\ written' = buf.gpuSlot
                        /\ needsUpdate' = TRUE
                        /\ uploadTime' = now

----------------------------------------------------------------------------
(* Grass.setMaterial: the vertex shader (material.positionNode) *)

\* units of 0.001 in a coordinate unit of 0.1
PosScale == 100
\* 1.0 as a falloff
FalloffOne == 100
\* 1.0 as a weight or as the length of a contribution
WeightOne == FalloffOne * FalloffOne
\* dist = length + 0.001
EPSILON == 1
\* uniform(1), uniform(0.8) in units of 0.001
playerRadius == 1000
cubeRadius == 800
\* uniform(1.2), uniform(1.0) in tenths
playerStrength == 12
cubeStrength == 10
StrengthOne == 10
\* smoothstep(float(4.0), float(3.0), age), in ticks
FADE_END == 40
FADE_START == 30
\* lengths are computed exactly up to this many units of 0.001 a component
LengthCap == 30000

Abs(a) == IF a < 0 THEN 0 - a ELSE a

Min(a, b) == IF a <= b THEN a ELSE b

Max(a, b) == IF a >= b THEN a ELSE b

\* a / b rounded toward zero, b > 0
TruncDiv(a, b) == IF a >= 0 THEN a \div b ELSE 0 - ((0 - a) \div b)

\* the integer square root of n, searched between lo and hi
RECURSIVE SqrtBetween(_, _, _)
SqrtBetween(n, lo, hi) ==
    IF lo >= hi THEN lo
    ELSE LET mid == (lo + hi + 1) \div 2
         IN  IF mid * mid <= n THEN SqrtBetween(n, mid, hi)
             ELSE SqrtBetween(n, lo, mid - 1)

\* vec2.length().  Beyond LengthCap the larger component stands for the
\* length: it is a lower bound of it and lies beyond both radii.
Length(dx, dz) ==
    IF Abs(dx) > LengthCap \/ Abs(dz) > LengthCap
    THEN Max(Abs(dx), Abs(dz))
    ELSE SqrtBetween(dx * dx + dz * dz, 0, 2 * LengthCap)

\* smoothstep(edge0, edge1, x): t = clamp((x - edge0) / (edge1 - edge0), 0, 1),
\* then t * t * (3 - 2 * t); the edges come in either order
Smoothstep(edge0, edge1, x) ==
    LET num == IF edge1 > edge0 THEN x - edge0 ELSE edge0 - x
        den == Abs(edge1 - edge0)
        t   == IF num <= 0 THEN 0
               ELSE IF num >= den THEN FalloffOne
               ELSE (num * FalloffOne) \div den
    IN  (t * t * (3 * FalloffOne - 2 * t)) \div (FalloffOne * FalloffOne)

\* smoothstep(this.playerRadius, float(0.0), dist)
SpatialFalloff(dist) == Smoothstep(playerRadius, 0, dist)

\* (variant of TimeFalloff: no fading)
TimeFalloffNone(age) == FalloffOne

\* (variant of TimeFalloff: the edges the other way round)
TimeFalloffRising(age) == Smoothstep(FADE_START, FADE_END, age)

\* smoothstep(float(4.0), float(3.0), age)
TimeFalloff(age) == Smoothstep(FADE_END, FADE_START, age)

\* the square of vec2.length(), which orders vectors as their lengths do
LengthSq(v) == v[1] * v[1] + v[2] * v[2]

\* (variant of ToDelta: from the blade to the trail point)
ToDeltaReversed(p, t) == (t - p) * PosScale

\* a component of bladePosition.sub(trailPoint), in units of 0.001
ToDelta(p, t) == (p - t) * PosScale

\* the body of the trail loop up to the contribution of slot i (0-based)
SlotContribution(point, pos, ages, i) ==
    LET tx       == pos[i * 2 + 1]
        tz       == pos[i * 2 + 2]
        age      == ages[i + 1]
        dx       == ToDelta(point[1], tx)
        dz       == ToDelta(point[2], tz)
        dist     == Length(dx, dz) + EPSILON
        spatial  == SpatialFalloff(dist)
        temporal == TimeFalloff(age)
        weight   == spatial * temporal
    IN  [spatialFalloff |-> spatial, timeFalloff |-> temporal, weight |-> weight,
         contribution   |-> <<TruncDiv(dx * weight, dist), TruncDiv(dz * weight, dist)>>]

\* (variant of KeepMax: the assignment without its If)
KeepLatest(push, contribution) == contribution

\* (variant of KeepMax: contributions accumulate)
KeepSum(push, contribution) ==
    <<push[1] + contribution[1], push[2] + contribution[2]>>

\* If(contribution.length().greaterThan(totalPush.length())) totalPush.assign(contribution)
KeepMax(push, contribution) ==
    IF LengthSq(contribution) > LengthSq(push) THEN contribution ELSE push

\* Loop({ start: 0, end: TRAIL_SIZE }) from slot i on; done holds the records
\* of the slots before i and push is totalPush so far
\* (kept is a pair of integers, always: the test has it computed slot by slot)
RECURSIVE TrailLoop(_, _, _, _, _, _)
TrailLoop(point, pos, ages, i, done, push) ==
    IF i < TRAIL_SIZE
    THEN LET c    == SlotContribution(point, pos, ages, i)
             kept == KeepMax(push, c.contribution)
         IN  IF kept \in Int \X Int
             THEN TrailLoop(point, pos, ages, i + 1, Append(done, c), kept)
             ELSE [contributions |-> done, totalPush |-> push]
    ELSE [contributions |-> done, totalPush |-> push]

\* the body of the cube loop: the contribution of cube slot ci (0-based)
CubeContribution(point, cpos, ci) ==
    LET dx      == ToDelta(point[1], cpos[ci * 2 + 1])
        dz      == ToDelta(point[2], cpos[ci * 2 + 2])
        dist    == Length(dx, dz) + EPSILON
        spatial == Smoothstep(cubeRadius, 0, dist) * FalloffOne
    IN  <<TruncDiv(dx * spatial, dist), TruncDiv(dz * spatial, dist)>>

\* Loop({ start: 0, end: CUBE_COUNT }) from slot ci on
RECURSIVE CubePushLoop(_, _, _, _)
CubePushLoop(point, cpos, ci, push) ==
    IF ci < CUBE_COUNT
    THEN LET kept == KeepMax(push, CubeContribution(point, cpos, ci))
         IN  IF kept \in Int \X Int
             THEN CubePushLoop(point, cpos, ci + 1, kept)
             ELSE push
    ELSE push

\* totalPush.mul(this.playerStrength).mul(tipness), tipness 0 or 1
ClampedPush(push, tipness) ==
    <<TruncDiv(push[1] * playerStrength * tipness, StrengthOne),
      TruncDiv(push[2] * playerStrength * tipness, StrengthOne)>>

\* cubePush.mul(this.cubeStrength).mul(tipness)
ClampedCubePush(push, tipness) ==
    <<TruncDiv(push[1] * cubeStrength * tipness, StrengthOne),
      TruncDiv(push[2] * cubeStrength * tipness, StrengthOne)>>

\* one run of the shader, for a vertex of the blade at point, on the arrays
\* as they are
Shade(point) ==
    LET loop == TrailLoop(point, trailPos, trailAges, 0, <<>>, <<0, 0>>)
    IN  /\ bladePosition' = point
        /\ contributions' = loop.contributions
        /\ totalPush' = loop.totalPush
        /\ cubePush' = CubePushLoop(point, cubePos, 0, <<0, 0>>)

----------------------------------------------------------------------------
(* main.js: gameLoop *)

\* the phases of one frame in the order of the source: the physics stepping
\* (lines 131-139), grass.update (line 172), sceneSetup.render() (line 189)
LoopOrderRenderFirst == <<"physics", "render", "grass">>

LoopOrder == <<"physics", "grass", "render">>

\* the phase gameLoop is about to run
Phase == LoopOrder[pc + 1]

\* the phase has run
Ran(step) ==
    /\ pc' = (pc + 1) % Len(LoopOrder)
    /\ frameLog' = IF pc = 0 THEN <<step>> ELSE Append(frameLog, step)

----------------------------------------------------------------------------
(* stateManager.js: updateState *)

INTENSITY_THRESHOLD == 5

\* the player's running speed (player.js: const SPEED = 5 units/s)
SPEED == 50

\* 1.0 of roomEnergy
RoomOne == 200

\* main.js: units of height to trigger the ending
CLIMB_THRESHOLD == 5

\* dt of one frame, in units of 0.05
Dt(dt) == 2 * dt

\* Math.max(-1, Math.min(1, raw)): the clamp of the design notes
\* (roomEnergy = clamp(movementIntensity - idleTimer, -1, 1)), raw in units
\* of 0.05 and the result in units of 0.005
ClampedUnscaled(raw) == Max(-RoomOne, Min(RoomOne, 10 * raw))

\* Math.max(-1, Math.min(1, raw * 0.1)): raw in units of 0.05, the result
\* in units of 0.005
Clamped(raw) == Max(-RoomOne, Min(RoomOne, raw))

\* the moving test with the threshold itself counted as moving
IsMovingInclusive(speed) == speed >= INTENSITY_THRESHOLD

\* speed > INTENSITY_THRESHOLD
IsMoving(speed) == speed > INTENSITY_THRESHOLD

UpdateState(speed, dt, height) ==
    LET intensity == IF IsMoving(speed)
                     THEN movementIntensity + 2 * Dt(dt)
                     ELSE Max(0, movementIntensity - Dt(dt) \div 2)
        idle == IF IsMoving(speed)
                THEN Max(0, idleTimer - Dt(dt))
                ELSE idleTimer + Dt(dt)
    IN  /\ stateElapsedTime' = stateElapsedTime + dt
        /\ movementIntensity' = intensity
        /\ idleTimer' = idle
        /\ totalDistanceTravelled' =
               IF IsMoving(speed) THEN totalDistanceTravelled + speed * dt
               ELSE totalDistanceTravelled
        /\ maxHeightReached' = IF height > maxHeightReached THEN height
                               ELSE maxHeightReached
        /\ roomEnergy' = Clamped(intensity - idle)
        /\ speedArg' = speed
        /\ UNCHANGED <<phase, ending>>

----------------------------------------------------------------------------
(* echoSystem.js: EchoSystem *)

\* 20 s, in ticks
ECHO_LIFETIME == 200

MAX_BUFFER_SIZE == 2 * BufferUnit

\* opacity 1.0: an opacity is counted in units of 1/120, so that a tick
\* of fade-in, 0.1 / DISSOLVE_DURATION = 0.1 / 4.0, is 3 units and a tick
\* of fade-out, 0.1 / 3.0, is 4
OpacityOne == 120
FadeInStep(dt) == 3 * dt
FadeOutStep(dt) == 4 * dt

NoCleanup == [sceneRemove |-> 0, geometryDispose |-> 0, materialDispose |-> 0,
              removeRigidBody |-> 0]

\* spawnManualEcho(position, elapsedTime)
SpawnManualEcho(elapsed) ==
    LET mesh == spawned + 1
    IN  /\ spawned' = mesh
        /\ sceneMeshes' = sceneMeshes \cup {mesh}
        /\ worldBodies' = worldBodies \cup {mesh}
        /\ cleanups' = Append(cleanups, NoCleanup)
        /\ echoes' = Append(echoes, [mesh |-> mesh, opacity |-> 0,
                                     spawnTime |-> elapsed])

\* the lifetime test with every age past it
ExpiredAtOnce(age) == age >= 0

\* age >= ECHO_LIFETIME
Expired(age) == age >= ECHO_LIFETIME

\* the fade-in of one echo: opacity 0 -> 1 over DISSOLVE_DURATION
FadedIn(echo, age, dt) ==
    IF echo.opacity < OpacityOne /\ age < ECHO_LIFETIME
    THEN [echo EXCEPT !.opacity = Min(OpacityOne, echo.opacity + FadeInStep(dt))]
    ELSE echo

\* the fade-out after the lifetime
FadedOut(echo, age, dt) ==
    IF Expired(age)
    THEN [echo EXCEPT !.opacity = echo.opacity - FadeOutStep(dt)]
    ELSE echo

\* the list is left as it is
SpliceNone(list, i) == list

\* this.echoes.splice(i, 1), i counted from 1
Splice(list, i) == SubSeq(list, 1, i - 1) \o SubSeq(list, i + 1, Len(list))

\* the body of the loop of update for the echo at index i (counted from 1):
\* the list and the meshes cleaned up so far, in the order of the calls
EchoStep(list, i, elapsed, dt, cleaned) ==
    LET age == elapsed - list[i].spawnTime
        echo == FadedOut(FadedIn(list[i], age, dt), age, dt)
        gone == Expired(age) /\ echo.opacity <= 0
        faded == [list EXCEPT ![i] = echo]
    IN  [echoes |-> IF gone THEN Splice(faded, i) ELSE faded,
         cleaned |-> IF gone THEN Append(cleaned, echo.mesh) ELSE cleaned]

\* for (let i = this.echoes.length - 1; i >= 0; i--), from index i down
\* (the set of one element has the body computed once, before the rest of
\* the loop)
RECURSIVE EchoLoop(_, _, _, _, _)
EchoLoop(list, i, elapsed, dt, cleaned) ==
    IF i < 1 THEN [echoes |-> list, cleaned |-> cleaned]
    ELSE CHOOSE result \in
             {EchoLoop(step.echoes, i - 1, elapsed, dt, step.cleaned) :
                 step \in {EchoStep(list, i, elapsed, dt, cleaned)}} : TRUE

RECURSIVE Count(_, _)
Count(list, x) ==
    IF list = <<>> THEN 0
    ELSE (IF Head(list) = x THEN 1 ELSE 0) + Count(Tail(list), x)

\* update(elapsedTime, dt), which tick calls
EchoUpdate(elapsed, dt) ==
    LET loop == EchoLoop(echoes, Len(echoes), elapsed, dt, <<>>)
        gone == {loop.cleaned[k] : k \in 1..Len(loop.cleaned)}
    IN  /\ echoes' = loop.echoes
        /\ sceneMeshes' = sceneMeshes \ gone
        /\ worldBodies' = worldBodies \ gone
        /\ cleanups' = [m \in 1..Len(cleanups) |->
               LET n == Count(loop.cleaned, m)
               IN  [sceneRemove |-> cleanups[m].sceneRemove + n,
                    geometryDispose |-> cleanups[m].geometryDispose + n,
                    materialDispose |-> cleanups[m].materialDispose + n,
                    removeRigidBody |-> cleanups[m].removeRigidBody + n]]
        /\ UNCHANGED spawned

----------------------------------------------------------------------------
(* ParticleSystem: the ring of spawn data *)

\* constructor(scene, maxParticles = 800); main.js passes the scene only
maxParticles == 800

\* this.startTimes[i] = -999.0
UNBORN == -999

\* this.startTimes[slot]: the constructor fills every slot with -999.0, so
\* startTimes holds the slots emit has written (slot idx is entry idx + 1)
\* and every other slot reads as UNBORN
StartTime(times, slot) ==
    IF slot + 1 \in DOMAIN times THEN times[slot + 1] ELSE UNBORN

\* this.startTimes[slot] = currentTime
SetStartTime(times, slot, currentTime) ==
    [entry \in DOMAIN times \cup {slot + 1} |->
        IF entry = slot + 1 THEN currentTime ELSE times[entry]]

\* Limit max emission at once
EMIT_CAP == 50

\* count taken as it is
EmitCountUncapped(count) == count

\* count = Math.min(count, 50)
EmitCount(count) == Min(count, EMIT_CAP)

\* for (let i = 0; i < count; i++) { ... } on the particles record: the
\* spawn data of slot idx (its start time stands for all of it) and the
\* advance of particleIndex
RECURSIVE EmitLoop(_, _, _, _)
EmitLoop(particles, i, count, currentTime) ==
    IF i < count
    THEN CHOOSE result \in
             {EmitLoop(next, i + 1, count, currentTime) :
                  next \in {[particleIndex |-> (particles.particleIndex + 1) % maxParticles,
                             startTimes |-> SetStartTime(particles.startTimes,
                                 particles.particleIndex, currentTime)]}} :
             TRUE
    ELSE particles

\* ParticleSystem.emit(origin, normal, count, currentTime)
Emit(particles, count, currentTime) ==
    EmitLoop(particles, 0, EmitCount(count), currentTime)

----------------------------------------------------------------------------
(* Key listeners: player.js, SpawnerZone.constructor, main.js *)

\* if (e.code in table) table[e.code] = value
SetKey(table, code, value) ==
    IF code \in DOMAIN table THEN [table EXCEPT ![code] = value] ELSE table

\* the keydown listener of main.js with possession started wherever the
\* player is
PossessionKeydownAnywhere(code) ==
    IF code = "Enter" /\ ~isPossessingQueen
    THEN /\ isPossessingQueen' = TRUE
         /\ isFrozen' = TRUE
         /\ cameraMode' = "topdown"
    ELSE IF code = "Escape" /\ isPossessingQueen
    THEN /\ isPossessingQueen' = FALSE
         /\ isFrozen' = FALSE
         /\ cameraMode' = "player"
    ELSE UNCHANGED <<isPossessingQueen, isFrozen, cameraMode>>

\* the keydown listener of main.js: possession toggling
PossessionKeydown(code) ==
    IF code = "Enter" /\ chessInside /\ ~isPossessingQueen
    THEN /\ isPossessingQueen' = TRUE
         /\ isFrozen' = TRUE
         /\ cameraMode' = "topdown"
    ELSE IF code = "Escape" /\ isPossessingQueen
    THEN /\ isPossessingQueen' = FALSE
         /\ isFrozen' = FALSE
         /\ cameraMode' = "player"
    ELSE UNCHANGED <<isPossessingQueen, isFrozen, cameraMode>>

\* a keydown event, delivered to the three keydown listeners
KeyDownEvent(code) ==
    /\ held' = held \cup {code}
    /\ event' = [type |-> "keydown", code |-> code]
    /\ KEYS' = SetKey(KEYS, code, TRUE)
    /\ pressedEnter' = IF code = "Enter" THEN TRUE ELSE pressedEnter
    /\ inputState' = SetKey(inputState, code, TRUE)
    /\ PossessionKeydown(code)
    /\ presses' = IF code = "KeyE" THEN presses + 1 ELSE presses
    /\ holds' = IF code = "Enter" THEN holds + 1 ELSE holds
    /\ holdBatches' = IF code = "Enter" THEN 0 ELSE holdBatches
    /\ UNCHANGED <<wantsToSpawnGhost, physicsAccumulator, enterConsumed, spawnerInside,
                   zoneCubes, chessInside, calls, moved, punched, punchCooldown>>

\* a keyup event, delivered to the three keyup listeners
KeyUpEvent(code) ==
    /\ held' = held \ {code}
    /\ event' = [type |-> "keyup", code |-> code]
    /\ KEYS' = SetKey(KEYS, code, FALSE)
    /\ pressedEnter' = IF code = "Enter" THEN FALSE ELSE pressedEnter
    /\ inputState' = SetKey(inputState, code, FALSE)
    /\ UNCHANGED <<wantsToSpawnGhost, physicsAccumulator, presses, enterConsumed,
                   spawnerInside, zoneCubes, holds, holdBatches, isPossessingQueen,
                   isFrozen, cameraMode, chessInside, calls, moved, punched,
                   punchCooldown>>

----------------------------------------------------------------------------
(* main.js: the sub-steps of a frame; Player.update; the zones *)

\* TIMESTEP = 1 / 60, in halves of itself
TIMESTEP == 2

\* const dt = Math.min(clock.getDelta(), 0.1): the cap, in halves of
\* TIMESTEP
DT_CAP == 12

\* the delta of the clock taken as it is
CappedDeltaNone(delta) == delta

\* Math.min(clock.getDelta(), 0.1)
CappedDelta(delta) == Min(delta, DT_CAP)

\* this._punchCooldown = 0.5, in halves of TIMESTEP
PUNCH_COOLDOWN == 60

\* the particles of a punch that hits: emit(..., 150, ...)
PUNCH_PARTICLES == 150

\* Player.update, the manual ghost spawn triggering: the flag and KEYS
\* after one sub-step
GhostTrigger(keys) ==
    [wants |-> keys["KeyE"], keys |-> [keys EXCEPT !["KeyE"] = FALSE]]

\* Player.update, the move direction built from KEYS: (dx, dz) before it
\* is normalised and rotated
MoveDirection(keys) ==
    << (IF keys["ArrowRight"] THEN 1 ELSE 0) - (IF keys["ArrowLeft"] THEN 1 ELSE 0),
       (IF keys["ArrowDown"] THEN 1 ELSE 0) - (IF keys["ArrowUp"] THEN 1 ELSE 0) >>

\* Player.update(TIMESTEP) on the player record p: the horizontal impulse
\* toward the target velocity of the keys (moved: len > 0), the punch with
\* its cooldown and, when the shape cast hits a dynamic body, its particles,
\* and the ghost trigger. The jumps depend on the ray casts of the physics
\* world and are left out.
PlayerUpdate(p, hit, now) ==
    LET punches == p.keys["KeyF"] /\ p.punchCooldown <= 0
        cooldown == IF punches THEN PUNCH_COOLDOWN ELSE p.punchCooldown
        ghost == GhostTrigger(p.keys)
    IN  [keys |-> ghost.keys,
         wants |-> ghost.wants,
         punchCooldown |-> IF cooldown > 0 THEN cooldown - TIMESTEP ELSE cooldown,
         moved |-> p.moved \/ MoveDirection(p.keys) # <<0, 0>>,
         punched |-> p.punched \/ punches,
         particles |-> IF punches /\ hit
                       THEN Emit(p.particles, PUNCH_PARTICLES, now)
                       ELSE p.particles]

\* while (physicsAccumulator >= TIMESTEP) { player.update(TIMESTEP);
\* world.step(); physicsAccumulator -= TIMESTEP; }
RECURSIVE SubSteps(_, _, _, _, _)
SubSteps(accumulator, p, hit, now, log) ==
    IF accumulator >= TIMESTEP
    THEN CHOOSE result \in
             {SubSteps(accumulator - TIMESTEP, next, hit, now,
                       log \o <<"player.update", "world.step">>) :
                  next \in {PlayerUpdate(p, hit, now)}} : TRUE
    ELSE [accumulator |-> accumulator, player |-> p, calls |-> log]

\* the squared distance on the ground, in squared tenths
DistanceSq(p, center) ==
    (p[1] - center[1]) * (p[1] - center[1]) + (p[2] - center[2]) * (p[2] - center[2])

\* SpawnerZone: center (-4, 0.05, 0), radius 2.0
SpawnerCenter == <<-40, 0>>
SpawnerRadius == 20

\* ChessZone: center (-22, 0.05, 0), radius 2.5
ChessCenter == <<-220, 0>>
ChessRadius == 25

\* this._enterConsumed = false (also reset outside)
OutsideReset == FALSE

\* SpawnerZone.update(playerPos)
SpawnerUpdate(playerPos) ==
    LET inside == DistanceSq(playerPos, SpawnerCenter) <= SpawnerRadius * SpawnerRadius
        spawns == inside /\ pressedEnter /\ ~enterConsumed
    IN  /\ spawnerInside' = inside
        /\ zoneCubes' = IF spawns THEN zoneCubes + 3 ELSE zoneCubes
        /\ holdBatches' = IF spawns THEN holdBatches + 1 ELSE holdBatches
        /\ enterConsumed' = IF spawns THEN TRUE
                            ELSE IF inside /\ ~pressedEnter THEN FALSE
                            ELSE IF inside THEN enterConsumed
                            ELSE OutsideReset
        /\ UNCHANGED <<pressedEnter, holds>>

\* ChessZone.update(playerPos)
ChessUpdate(playerPos) ==
    chessInside' = (DistanceSq(playerPos, ChessCenter) <= ChessRadius * ChessRadius)

\* one frame of gameLoop at the player position playerPos: the sub-steps
\* (hit: the shape cast of a punch finds a dynamic body), the manual ghost
\* echo spawn, spawnerZone.update and chessZone.update
GameFrame(dt, playerPos, hit) ==
    LET before == [keys |-> KEYS, wants |-> wantsToSpawnGhost,
                   punchCooldown |-> punchCooldown, moved |-> FALSE, punched |-> FALSE,
                   particles |-> [particleIndex |-> particleIndex,
                                  startTimes |-> startTimes]]
        loop == SubSteps(physicsAccumulator + dt, before, hit, elapsedTime, <<>>)
    IN  /\ physicsAccumulator' = loop.accumulator
        /\ calls' = loop.calls
        /\ KEYS' = loop.player.keys
        /\ wantsToSpawnGhost' = loop.player.wants
        /\ punchCooldown' = loop.player.punchCooldown
        /\ moved' = loop.player.moved
        /\ punched' = loop.player.punched
        /\ particleIndex' = loop.player.particles.particleIndex
        /\ startTimes' = loop.player.particles.startTimes
        /\ emitted' = IF loop.player.punched /\ hit
                      THEN [index |-> particleIndex, count |-> PUNCH_PARTICLES,
                            time |-> elapsedTime]
                      ELSE emitted
        /\ IF loop.player.wants
           THEN SpawnManualEcho(stateElapsedTime)
           ELSE UNCHANGED echoVars
        /\ SpawnerUpdate(playerPos)
        /\ ChessUpdate(playerPos)
        /\ event' = [type |-> "frame", code |-> ""]
        /\ UNCHANGED <<held, presses, inputState, isPossessingQueen, isFrozen, cameraMode>>

----------------------------------------------------------------------------
(* mobileControls.js: the virtual joystick. Lengths in pixels. *)

\* const DEADZONE = 0.25, as a fraction of DeadzoneDen
DEADZONE == 25
DeadzoneDen == 100

\* const RADIUS = 65
RADIUS == 65

\* const maxDist = RADIUS * 0.85, in hundredths of a pixel
maxDist == RADIUS * 85

\* the normalised axis of the offset d of a touch at (dx, dy) from the
\* origin is beyond the dead zone: d * clamp / (dist * maxDist) > DEADZONE
\* with clamp = Math.min(dist, maxDist)
BeyondDeadzone(d, dx, dy) ==
    LET distSq == dx * dx + dy * dy
    IN  IF 10000 * distSq <= maxDist * maxDist
        THEN DeadzoneDen * 100 * d > DEADZONE * maxDist
        ELSE d > 0 /\ DeadzoneDen * DeadzoneDen * d * d > DEADZONE * DEADZONE * distSq

\* setKey firing whatever activeKeys holds
setKeyAlways(joy, code, active) ==
    [activeKeys |-> IF active THEN joy.activeKeys \cup {code} ELSE joy.activeKeys \ {code},
     fired |-> Append(joy.fired, [type |-> IF active THEN "keydown" ELSE "keyup",
                                  code |-> code])]

\* setKey(code, active) on the joystick record: activeKeys and the events
\* fireKey dispatched
setKey(joy, code, active) ==
    IF active /\ code \notin joy.activeKeys
    THEN [activeKeys |-> joy.activeKeys \cup {code},
          fired |-> Append(joy.fired, [type |-> "keydown", code |-> code])]
    ELSE IF ~active /\ code \in joy.activeKeys
    THEN [activeKeys |-> joy.activeKeys \ {code},
          fired |-> Append(joy.fired, [type |-> "keyup", code |-> code])]
    ELSE joy

\* releaseAllDirections()
releaseAllDirections(joy) ==
    setKey(setKey(setKey(setKey(joy, "ArrowUp", FALSE), "ArrowDown", FALSE),
                  "ArrowLeft", FALSE), "ArrowRight", FALSE)

\* updateJoystick(touchX, touchY), the touch at (dx, dy) from joyOrigin
updateJoystick(joy, dx, dy) ==
    setKey(setKey(setKey(setKey(joy, "ArrowRight", BeyondDeadzone(dx, dx, dy)),
                         "ArrowLeft", BeyondDeadzone(-dx, dx, dy)),
                  "ArrowDown", BeyondDeadzone(dy, dx, dy)),
           "ArrowUp", BeyondDeadzone(-dy, dx, dy))

\* the keydown and keyup listeners of player.js and main.js on the events
\* from the k-th on
RECURSIVE Delivered(_, _, _)
Delivered(table, events, k) ==
    IF k > Len(events) THEN table
    ELSE Delivered(SetKey(table, events[k].code, events[k].type = "keydown"), events, k + 1)

\* a joystick touch handler that leaves the joystick record joy: the
\* events it fired reach the listeners of window
JoystickLeft(joy) ==
    /\ activeKeys' = joy.activeKeys
    /\ fired' = joy.fired
    /\ KEYS' = Delivered(KEYS, joy.fired, Len(fired) + 1)
    /\ inputState' = Delivered(inputState, joy.fired, Len(fired) + 1)

\* joystickZone touchstart
TouchStart(dx, dy) ==
    /\ joyOrigin' = TRUE
    /\ JoystickLeft(updateJoystick([activeKeys |-> activeKeys, fired |-> fired], dx, dy))
    /\ touch' = "touchstart"

\* joystickZone touchmove
TouchMove(dx, dy) ==
    /\ IF ~joyOrigin
       THEN UNCHANGED <<activeKeys, fired, KEYS, inputState>>
       ELSE JoystickLeft(updateJoystick([activeKeys |-> activeKeys, fired |-> fired],
                                        dx, dy))
    /\ touch' = "touchmove"
    /\ UNCHANGED joyOrigin

\* joystickZone touchend
TouchEnd ==
    /\ joyOrigin' = FALSE
    /\ JoystickLeft(releaseAllDirections([activeKeys |-> activeKeys, fired |-> fired]))
    /\ touch' = "touchend"

----------------------------------------------------------------------------
(* Specifications *)

Init ==
    /\ isMobile \in BOOLEAN
    /\ time = 0
    /\ timeNode = 0
    /\ playerTrail = <<>>
    /\ cubeTrail = <<>>
    /\ lastSampleTime = 0
    /\ cubeLastPos = Null
    /\ trailPos = [i \in 1..(2 * TRAIL_SIZE) |-> SENTINEL_POS]
    /\ trailAges = [i \in 1..TRAIL_SIZE |-> SENTINEL_AGE]
    /\ args = [playerPos |-> Null, onGround |-> TRUE, cubePositions |-> Null]
    /\ ret = "init"
    /\ footprints = <<>>
    /\ needsUpdate = FALSE
    /\ written = 0
    /\ uploadTime = 0
    /\ cubePos = FlatCubePos
    /\ bladePosition = Null
    /\ contributions = <<>>
    /\ totalPush = <<0, 0>>
    /\ cubePush = <<0, 0>>
    /\ elapsedTime = 0
    /\ pc = 0
    /\ frameLog = <<>>
    /\ movementIntensity = 0
    /\ idleTimer = 0
    /\ totalDistanceTravelled = 0
    /\ maxHeightReached = 0
    /\ roomEnergy = 0
    /\ phase = "playing"
    /\ stateElapsedTime = 0
    /\ ending = FALSE
    /\ speedArg = 0
    /\ echoes = <<>>
    /\ spawned = 0
    /\ sceneMeshes = {}
    /\ worldBodies = {}
    /\ cleanups = <<>>
    /\ held = {}
    /\ event = [type |-> "init", code |-> ""]
    /\ KEYS = [code \in {"ArrowUp", "ArrowDown", "ArrowLeft", "ArrowRight",
                          "Space", "KeyE", "Enter", "KeyF"} |-> FALSE]
    /\ wantsToSpawnGhost = FALSE
    /\ physicsAccumulator = 0
    /\ presses = 0
    /\ calls = <<>>
    /\ moved = FALSE
    /\ punched = FALSE
    /\ punchCooldown = 0
    /\ pressedEnter = FALSE
    /\ enterConsumed = FALSE
    /\ spawnerInside = FALSE
    /\ zoneCubes = 0
    /\ holds = 0
    /\ holdBatches = 0
    /\ inputState = [code \in {"ArrowUp", "ArrowDown", "ArrowLeft", "ArrowRight",
                                "Enter", "Escape"} |-> FALSE]
    /\ isPossessingQueen = FALSE
    /\ isFrozen = FALSE
    /\ cameraMode = "none"
    /\ chessInside = FALSE
    /\ wallCubes = WallBodies
    /\ translation = [body \in 1..MaxCubes |-> <<0, 0>>]
    /\ cubeLastOwner = <<>>
    /\ particleIndex = 0
    /\ startTimes = <<>>
    /\ emitted = [index |-> 0, count |-> 0, time |-> 0]
    /\ joyOrigin = FALSE
    /\ activeKeys = {}
    /\ fired = <<>>
    /\ touch = "none"
    /\ cubeFirstPos = Null
    /\ cubeStartPos = Null
    /\ cubePushed = {}

\* one call of update at a time now of NowS, with arguments of the given sets
Step(NowS, PosS, GroundS, CubeS) ==
    \E now \in NowS, playerPos \in PosS, onGround \in GroundS, cubePositions \in CubeS :
        /\ now >= time
        /\ Update(now, playerPos, onGround, cubePositions)
        /\ UNCHANGED <<loopVars, gameVars>>

\* Spec: a valid or missing player position, cube lists of every length,
\* calls one or two ticks apart
Next == Step({time + 1, time + 2} \cap 0..MaxTime,
             {<<5, 2>>, Null}, BOOLEAN, FewCubeLists)

Spec == Init /\ [][Next]_vars

\* PlayerSpec: every player position, cubes that never move, calls at the
\* same tick or one or two ticks apart
PlayerNext == Step({time, time + 1, time + 2} \cap 0..PlayerMaxTime,
                   PlayerPosSet \cup {Null}, BOOLEAN,
                   {Null, << <<0, 0>> >>, << <<0, 0>>, <<0, 0>> >>})

PlayerSpec == Init /\ [][PlayerNext]_vars

\* CubeSpec: every cube list, an airborne player, calls one tick apart
CubeNext == Step({time + 1} \cap 0..CubeMaxTime, {<<5, 2>>}, {FALSE}, CubeListSet)

CubeSpec == Init /\ [][CubeNext]_vars

\* AgeSpec: a burst of calls, then a burst HOLD_TIME + FADE_TIME later
AgeTimes == (0..AgeBurst) \cup (totalTime..(totalTime + AgeBurst + PRUNE_MARGIN))

AgeNext == Step({t \in AgeTimes : t > time}, {<<5, 2>>, Null}, BOOLEAN,
                {Null, << <<0, 0>> >>, << <<0, 4>> >>})

AgeSpec == Init /\ [][AgeNext]_vars

\* ScenarioSpec: grounded calls only, each more than SAMPLE_INTERVAL after
\* the one before (0.2 s, 4.1 s or 4.2 s), until PLAYER_SLOTS +
\* ExtraFootprints footprints have been recorded
ScenarioNext ==
    /\ Len(footprints) < PLAYER_SLOTS + ExtraFootprints
    /\ Step({time + 2, time + totalTime + 1, time + totalTime + PRUNE_MARGIN},
            {<<5, 2>>}, {TRUE}, {Null})

ScenarioSpec == Init /\ [][ScenarioNext]_vars

\* FieldSpec: grounded calls of update in a burst, with cube positions or
\* without, and then across the fade window at (0, 0), each followed by any
\* number of shader runs
FieldTimes == (0..FieldBurst) \cup {HOLD_TIME + FadeStride * k : k \in 0..FadeSteps}

\* (a first call may come at time 0; later calls come at later times)
FieldUpdate ==
    \/ Step({t \in 0..FieldBurst : t > time \/ ret = "init"}, FieldPosSet \cup {Null},
            {TRUE}, {Null, << <<0, 0>> >>, << <<0, 4>> >>})
    \/ Step({t \in FieldTimes : t > time /\ t >= HOLD_TIME}, {<<0, 0>>, Null},
            {TRUE}, {Null})

FieldShade ==
    \E point \in PointSet :
        /\ Shade(point)
        /\ UNCHANGED <<grassVars, loopVars, gameVars>>

FieldNext == FieldUpdate \/ FieldShade

FieldSpec == Init /\ [][FieldNext]_vars

\* one call of update with the history of the cube positions kept: the
\* list of the first call that carried one, the list _cubeLastPos was
\* initialised to, and the indices whose remembered position a call has
\* replaced (lines 275-276: an entry was pushed for them)
FirstStep(NowS, PosS, GroundS, CubeS) ==
    \E now \in NowS, playerPos \in PosS, onGround \in GroundS, cubePositions \in CubeS :
        /\ now >= time
        /\ Update(now, playerPos, onGround, cubePositions)
        /\ cubeFirstPos' = IF cubeFirstPos = Null THEN cubePositions ELSE cubeFirstPos
        /\ cubeStartPos' = IF cubeLastPos = Null /\ cubeLastPos' # Null
                           THEN cubePositions ELSE cubeStartPos
        /\ cubePushed' = IF cubeLastPos' = Null \/ cubePositions = Null
                            \/ Missing(playerPos)
                         THEN cubePushed
                         ELSE cubePushed \cup
                              {i \in 1..Len(cubeLastPos') :
                                  cubeLastPos'[i] # (IF cubeLastPos = Null THEN cubePositions
                                                    ELSE cubeLastPos)[i]}
        /\ UNCHANGED <<loopVars, stateVars, echoVars, keyVars, zoneVars, wallVars,
                       particleVars, mobileVars>>

\* FirstSpec: cube lists of one length, a player position or none, calls
\* one tick apart
FirstNext == FirstStep({time + 1} \cap 0..FirstMaxTime, {<<5, 2>>, Null}, {FALSE},
                       {l \in CubeListSet : Len(l) = MaxCubes} \cup {Null})

FirstSpec == Init /\ [][FirstNext]_vars

\* FrameSpec: gameLoop, one phase at a time
\* const now = clock.elapsedTime; the physics stepping: world.step() moves
\* the bodies of the wall
LoopPhysics ==
    /\ Phase = "physics"
    /\ elapsedTime' \in {elapsedTime + 1, elapsedTime + 2} \cap 0..FrameMaxTime
    /\ translation' \in WallLists
    /\ Ran("physics")
    /\ UNCHANGED <<grassVars, shaderVars, stateVars, echoVars, keyVars, zoneVars,
                   wallCubes, cubeLastOwner, particleVars, mobileVars, firstVars>>

\* the list rotated by one entry
CubeListRotated(cubes) == Tail(cubes) \o <<Head(cubes)>>

\* cubeWall.update(): this.cubes as it is left (the meshes are synced)
CubeListKept(cubes) == cubes

\* cubeWall.cubes.map(c => { const t = c.rigidBody.translation(); ... })
CubePositionsOf(cubes) == [i \in 1..Len(cubes) |-> translation[cubes[i]]]

\* the bodies whose positions _cubeLastPos holds after a call that was
\* passed the positions of the bodies of cubes
OwnersAfter(cubes) ==
    IF cubeLastPos' = Null THEN cubeLastOwner
    ELSE IF cubeLastPos = Null THEN cubes
    ELSE [i \in 1..Len(cubeLastPos') |->
             IF i > Len(cubeLastPos) \/ cubeLastPos'[i] # cubeLastPos[i]
             THEN cubes[i] ELSE cubeLastOwner[i]]

\* grass.update(now, targetPos, player._onGround, cubePositions); an
\* exception leaves the frame, the next one is already requested;
\* cubeWall.update()
LoopGrass ==
    /\ Phase = "grass"
    /\ \E targetPos \in FieldPosSet, onGround \in BOOLEAN :
           Update(elapsedTime, targetPos, onGround, CubePositionsOf(wallCubes))
    /\ cubeLastOwner' = OwnersAfter(wallCubes)
    /\ IF ret' = "threw"
       THEN pc' = 0 /\ frameLog' = Append(frameLog, "grass") /\ UNCHANGED wallCubes
       ELSE Ran("grass") /\ wallCubes' = CubeListKept(wallCubes)
    /\ UNCHANGED <<elapsedTime, stateVars, echoVars, keyVars, zoneVars, translation,
                   particleVars, mobileVars, firstVars>>

\* sceneSetup.render(): the shader runs on the arrays as they are
LoopRender ==
    /\ Phase = "render"
    /\ \E point \in PointSet : Shade(point)
    /\ Ran("render")
    /\ UNCHANGED <<grassVars, elapsedTime, gameVars>>

FrameNext == LoopPhysics \/ LoopGrass \/ LoopRender

FrameSpec == Init /\ [][FrameNext]_vars

\* StateSpec: updateState once a frame (main.js line 144), dt the frame's
\* capped delta (0 or one tick); the player stands, walks at the threshold
\* speed or runs, on the ground or on either side of the climb threshold,
\* and after StateBurst ticks keeps the speed it has, on the ground; the
\* clock of the model stops at StateMaxTime, where the frames go on with
\* dt = 0
SpeedSet == {0, INTENSITY_THRESHOLD, SPEED}
HeightSet == {0, CLIMB_THRESHOLD, CLIMB_THRESHOLD + 1}

StateNext ==
    \/ /\ stateElapsedTime < StateBurst
       /\ \E speed \in SpeedSet, dt \in {0, 1}, height \in HeightSet :
              UpdateState(speed, dt, height)
       /\ UNCHANGED <<grassVars, shaderVars, loopVars, echoVars, keyVars, zoneVars, wallVars,
                   particleVars, mobileVars, firstVars>>
    \/ /\ stateElapsedTime >= StateBurst
       /\ stateElapsedTime < StateMaxTime
       /\ UpdateState(speedArg, 1, 0)
       /\ UNCHANGED <<grassVars, shaderVars, loopVars, echoVars, keyVars, zoneVars, wallVars,
                   particleVars, mobileVars, firstVars>>
    \/ /\ stateElapsedTime >= StateMaxTime
       /\ \E speed \in SpeedSet : UpdateState(speed, 0, 0)
       /\ UNCHANGED <<grassVars, shaderVars, loopVars, echoVars, keyVars, zoneVars, wallVars,
                   particleVars, mobileVars, firstVars>>

StateSpec == Init /\ [][StateNext]_vars

\* the frames keep coming (requestAnimationFrame, main.js line 125)
StateLiveSpec == StateSpec /\ WF_vars(StateNext)

\* InputSpec: key presses without auto-repeat and frames of half a
\* TIMESTEP up to MaxFrameDt halves, the player at the start, on the edge of
\* the spawner zone or on the edge of the chess zone
PlayerSpots == {<<0, 0>>, <<-20, 0>>, <<-195, 0>>}

KeyDown(codes) ==
    \E code \in codes \ held :
        /\ code = "KeyE" => presses < MaxPresses
        /\ code = "Enter" => holds < MaxHolds
        /\ KeyDownEvent(code)
        /\ UNCHANGED <<grassVars, shaderVars, loopVars, stateVars, echoVars, wallVars,
                   particleVars, mobileVars, firstVars>>

KeyUp(codes) ==
    \E code \in codes \cap held :
        /\ KeyUpEvent(code)
        /\ UNCHANGED <<grassVars, shaderVars, loopVars, stateVars, echoVars, wallVars,
                   particleVars, mobileVars, firstVars>>

Frame(spots) ==
    \E dt \in 1..MaxFrameDt, playerPos \in spots,
       hit \in IF KEYS["KeyF"] THEN BOOLEAN ELSE {FALSE} :
        /\ zoneCubes < 3 * MaxBatches
        /\ GameFrame(dt, playerPos, hit)
        /\ UNCHANGED <<grassVars, shaderVars, loopVars, stateVars, wallVars, mobileVars,
                   firstVars>>

\* KeySpec: presses of KeyE, the player at the start
KeyNext == KeyDown({"KeyE"}) \/ KeyUp({"KeyE"}) \/ Frame({<<0, 0>>})

KeySpec == Init /\ [][KeyNext]_vars

\* ZoneSpec: holds of Enter and Escape, the player anywhere
ZoneNext ==
    \/ KeyDown({"Enter", "Escape"})
    \/ KeyUp({"Enter", "Escape"})
    \/ Frame(PlayerSpots)

ZoneSpec == Init /\ [][ZoneNext]_vars

\* a frame after any delta of the clock up to MaxDelta halves of TIMESTEP
LongFrame ==
    \E delta \in 0..MaxDelta :
        /\ GameFrame(CappedDelta(delta), <<0, 0>>, FALSE)
        /\ UNCHANGED <<grassVars, shaderVars, loopVars, stateVars, wallVars, mobileVars,
                   firstVars>>

\* StepSpec: the arrow keys, frames of any length
StepKeys == {"ArrowLeft", "ArrowRight", "ArrowUp"}

StepNext == KeyDown(StepKeys) \/ KeyUp(StepKeys) \/ LongFrame

StepSpec == Init /\ [][StepNext]_vars

\* a frame of one TIMESTEP with the player on the edge of the chess zone;
\* at most MaxHits punches hit a cube
PunchFrame ==
    \E hit \in IF KEYS["KeyF"] THEN BOOLEAN ELSE {FALSE} :
        /\ hit => particleIndex < EMIT_CAP * MaxHits
        /\ GameFrame(TIMESTEP, <<-195, 0>>, hit)
        /\ UNCHANGED <<grassVars, shaderVars, loopVars, stateVars, wallVars, mobileVars,
                   firstVars>>

\* FrozenSpec: Enter and Escape, an arrow key and the punch key
FrozenKeys == {"Enter", "Escape", "ArrowRight", "KeyF"}

FrozenNext == KeyDown(FrozenKeys) \/ KeyUp(FrozenKeys) \/ PunchFrame

FrozenSpec == Init /\ [][FrozenNext]_vars

\* particleSys.emit called with any count EmitBurst times, then by the
\* punches (150) until MaxEmits calls were made; the clock of the call is
\* the number of calls so far
EmitCounts == {0, 1, EMIT_CAP - 1, EMIT_CAP, EMIT_CAP + 1, PUNCH_PARTICLES}

EmitCall ==
    \E count \in IF emitted.time < EmitBurst THEN EmitCounts ELSE {PUNCH_PARTICLES} :
        /\ emitted.time < MaxEmits
        /\ LET after == Emit([particleIndex |-> particleIndex, startTimes |-> startTimes],
                             count, emitted.time + 1)
           IN  /\ particleIndex' = after.particleIndex
               /\ startTimes' = after.startTimes
        /\ emitted' = [index |-> particleIndex, count |-> count, time |-> emitted.time + 1]
        /\ UNCHANGED <<grassVars, shaderVars, loopVars, stateVars, echoVars, keyVars,
                       zoneVars, wallVars, mobileVars,
                   firstVars>>

ParticleSpec == Init /\ [][EmitCall]_vars

\* JoystickSpec: touches on the joystick zone, at its centre, inside the
\* dead zone, just beyond it and beyond the rim, until MaxFired events were
\* fired
TouchOffsets == {<<0, 0>>, <<13, 0>>, <<14, 0>>, <<-14, 0>>, <<0, -60>>, <<60, 60>>,
                 <<-60, 14>>}

JoystickNext ==
    /\ Len(fired) < MaxFired
    /\ \/ \E t \in TouchOffsets : TouchStart(t[1], t[2])
       \/ \E t \in TouchOffsets : TouchMove(t[1], t[2])
       \/ TouchEnd
    /\ UNCHANGED <<grassVars, shaderVars, loopVars, stateVars, echoVars, wallVars,
                   particleVars, held, event, wantsToSpawnGhost, physicsAccumulator,
                   presses, calls, moved, punched, punchCooldown, pressedEnter,
                   enterConsumed, spawnerInside, zoneCubes, holds, holdBatches,
                   isPossessingQueen, isFrozen, cameraMode, chessInside, firstVars>>

JoystickSpec == Init /\ [][JoystickNext]_vars

\* echoSys.spawnManualEcho(playerPos, state.elapsedTime), main.js line 148
EchoSpawn(limit, window) ==
    /\ spawned < limit
    /\ stateElapsedTime <= window
    /\ SpawnManualEcho(stateElapsedTime)
    /\ UNCHANGED <<grassVars, shaderVars, loopVars, stateVars, keyVars, zoneVars, wallVars,
                   particleVars, mobileVars, firstVars>>

\* a frame of a player standing still: updateState advances state.elapsedTime
\* by dt (main.js line 144) and echoSys.tick(state.elapsedTime, dt) runs
\* (line 152)
EchoTick(end) ==
    \E dt \in {0, 1} :
        /\ stateElapsedTime + dt <= end
        /\ UpdateState(0, dt, 0)
        /\ EchoUpdate(stateElapsedTime + dt, dt)
        /\ UNCHANGED <<grassVars, shaderVars, loopVars, keyVars, zoneVars, wallVars,
                   particleVars, mobileVars, firstVars>>

\* EchoSpec: a few echoes spawned early, frames until all of them are gone
EchoMaxTime == EchoSpawnWindow + ECHO_LIFETIME + EchoSlack

EchoNext ==
    \/ EchoSpawn(MAX_BUFFER_SIZE + EchoOverflow, EchoSpawnWindow)
    \/ EchoTick(EchoMaxTime)

EchoSpec == Init /\ [][EchoNext]_vars

\* EchoLiveSpec: up to LiveEchoes echoes spawned early; tick keeps being
\* called, with a positive dt again and again
EchoLiveNext ==
    \/ EchoSpawn(LiveEchoes, EchoSpawnWindow)
    \/ EchoTick(EchoMaxTime)

EchoLiveSpec == Init /\ [][EchoLiveNext]_vars /\ WF_vars(EchoTick(EchoMaxTime))

----------------------------------------------------------------------------
(* Properties of Grass.update *)

\* packed slot s (1-based) holds position (x, z) and age a
SlotHolds(s, x, z, a) ==
    /\ trailPos[2 * s - 1] = x
    /\ trailPos[2 * s] = z
    /\ trailAges[s] = a

\* C1 (priority invariant): after every pack, if the player trail holds
\* k <= TRAIL_SIZE entries then packed slots 0..k-1 hold exactly those
\* entries (x, z, age = now - t) in chronological order, whatever the size
\* of the cube trail.
PriorityInvariant ==
    ret = "done" =>
        (Len(playerTrail) <= TRAIL_SIZE =>
            \A i \in 1..Len(playerTrail) :
                SlotHolds(i, playerTrail[i].x, playerTrail[i].z,
                          time - playerTrail[i].t))

\* a pack with a player entry in which the two trails together hold more
\* entries than there are slots
PriorityWitness ==
    /\ ret = "done"
    /\ Len(playerTrail) >= 1
    /\ Len(playerTrail) + Len(cubeTrail) > TRAIL_SIZE

\* C2 (capacity invariant): at the end of each call the player trail has at
\* most PLAYER_SLOTS entries and the cube trail at most CUBE_SLOTS entries.
CapacityInvariant ==
    /\ Len(playerTrail) <= PLAYER_SLOTS
    /\ Len(cubeTrail) <= CUBE_SLOTS

\* C6 (packer fill): after every pack, with p and c the lengths of the
\* player and cube trails, slots p .. min(p+c, TRAIL_SIZE)-1 hold the cube
\* entries oldest first and every later slot holds the sentinel; no slot
\* keeps what an earlier frame wrote.
PackerFill ==
    ret = "done" =>
        LET p    == Len(playerTrail)
            live == Min(p + Len(cubeTrail), TRAIL_SIZE)
        IN  \A s \in (p + 1)..TRAIL_SIZE :
                IF s <= live
                THEN SlotHolds(s, cubeTrail[s - p].x, cubeTrail[s - p].z,
                               time - cubeTrail[s - p].t)
                ELSE SlotHolds(s, SENTINEL_POS, SENTINEL_POS, SENTINEL_AGE)

\* a pack with player entries, cube entries and sentinels
PackerFillWitness ==
    /\ ret = "done"
    /\ Len(playerTrail) >= 1
    /\ Len(cubeTrail) >= 1
    /\ Len(playerTrail) + Len(cubeTrail) < TRAIL_SIZE

\* C9 (missing player position): a call whose playerPos is null leaves both
\* trails, the last-sample time, the remembered cube positions and both
\* packed arrays as they were.
NullIsNoOp ==
    [][args'.playerPos = Null =>
        UNCHANGED <<playerTrail, cubeTrail, lastSampleTime, cubeLastPos,
                    trailPos, trailAges>>]_vars

\* a call with a null playerPos has returned although both trails hold
\* entries, cube positions came with it, a sample was due and the packed
\* ages are those of an earlier time
NullCallWitness ==
    /\ ret = "return"
    /\ args.cubePositions # Null
    /\ args.onGround
    /\ time - lastSampleTime > SAMPLE_INTERVAL
    /\ Len(playerTrail) >= 1
    /\ Len(cubeTrail) >= 1
    /\ trailAges[1] # time - playerTrail[1].t

\* C10 (invalid sample skipping): no entry of the player trail carries a NaN
\* coordinate and no packed slot holds a NaN position.
NoNaNRecorded ==
    /\ \A i \in 1..Len(playerTrail) :
          ~IsNaN(playerTrail[i].x) /\ ~IsNaN(playerTrail[i].z)
    /\ \A j \in 1..(2 * TRAIL_SIZE) : ~IsNaN(trailPos[j])

\* the entries of trail younger than the pruning window at time now
Fresh(trail, now) ==
    SelectSeq(trail, LAMBDA e : now - e.t < HOLD_TIME + FADE_TIME + PRUNE_MARGIN)

\* the last k entries of trail
Newest(trail, k) == SubSeq(trail, Len(trail) - k + 1, Len(trail))

\* after is what remains of before when only oldest entries are dropped
IsSuffix(after, before) ==
    /\ Len(after) <= Len(before)
    /\ after = Newest(before, Len(after))

\* the footprints a call with cube positions cubes leaves at time now, given
\* the remembered positions rem: one per index whose cube is farther than
\* the threshold from its remembered position, in index order, each at the
\* remembered position
CubeFootsteps(cubes, rem, now) ==
    LET far(i) == (cubes[i][1] - rem[i][1]) * (cubes[i][1] - rem[i][1])
                  + (cubes[i][2] - rem[i][2]) * (cubes[i][2] - rem[i][2])
                  > MOVE_THRESHOLD_SQ
        idx    == SelectSeq([i \in 1..Min(Len(cubes), Len(rem)) |-> i], far)
    IN  [k \in 1..Len(idx) |-> Entry(rem[idx[k]][1], rem[idx[k]][2], now)]

\* C3 as stated (age invariant): at the end of each call every entry of
\* either trail satisfies now - t < HOLD_TIME + FADE_TIME.
AgeInvariant ==
    /\ \A i \in 1..Len(playerTrail) : time - playerTrail[i].t < HOLD_TIME + FADE_TIME
    /\ \A j \in 1..Len(cubeTrail) : time - cubeTrail[j].t < HOLD_TIME + FADE_TIME

\* C3 as amended: at the end of a call that appended a player entry, every
\* entry of the player trail satisfies now - t < HOLD_TIME + FADE_TIME + 0.2,
\* and at the end of a call with cube positions that ran to its upload,
\* every entry of the cube trail does.
AgeBoundAfterPruning ==
    /\ lastSampleTime = time =>
          \A i \in 1..Len(playerTrail) :
              time - playerTrail[i].t < HOLD_TIME + FADE_TIME + PRUNE_MARGIN
    /\ (ret = "done" /\ args.cubePositions # Null) =>
          \A j \in 1..Len(cubeTrail) :
              time - cubeTrail[j].t < HOLD_TIME + FADE_TIME + PRUNE_MARGIN

\* both trails were pruned by this call and both keep an entry that is
\* HOLD_TIME + FADE_TIME old or older
AgeWitness ==
    /\ ret = "done"
    /\ args.cubePositions # Null
    /\ lastSampleTime = time
    /\ \E i \in 1..Len(playerTrail) : time - playerTrail[i].t >= HOLD_TIME + FADE_TIME
    /\ \E j \in 1..Len(cubeTrail) : time - cubeTrail[j].t >= HOLD_TIME + FADE_TIME

PrimaryGate ==
    [][args'.playerPos # Null =>
        LET e == Entry(args'.playerPos[1], args'.playerPos[2], time')
        IN  IF args'.onGround /\ time' - lastSampleTime > SAMPLE_INTERVAL
            THEN /\ lastSampleTime' = time'
                 /\ Len(playerTrail') >= 1
                 /\ playerTrail'[Len(playerTrail')] = e
                 /\ IsSuffix(playerTrail', Append(playerTrail, e))
            ELSE UNCHANGED <<playerTrail, lastSampleTime>>]_vars

\* a grounded call has appended the position it was given behind an
\* earlier footprint
PrimaryGateWitness ==
    /\ ret = "done"
    /\ args.onGround
    /\ lastSampleTime = time
    /\ Len(playerTrail) >= 2
    /\ playerTrail[Len(playerTrail)] = Entry(args.playerPos[1], args.playerPos[2], time)

ScenarioAsStated ==
    Len(footprints) = PLAYER_SLOTS + ExtraFootprints =>
        /\ Len(playerTrail) = PLAYER_SLOTS
        /\ playerTrail = Newest(footprints, PLAYER_SLOTS)

\* C5 as amended: after those appends the player trail holds the newest
\* min(PLAYER_SLOTS, m) footprints, m being the number of footprints younger
\* than HOLD_TIME + FADE_TIME + 0.2 at the last append; so it has
\* PLAYER_SLOTS entries, with exactly the 5 oldest footprints missing, only
\* when at least PLAYER_SLOTS footprints are that young.
ScenarioAmended ==
    Len(footprints) = PLAYER_SLOTS + ExtraFootprints =>
        LET m == Len(Fresh(footprints, time))
        IN  /\ playerTrail = Newest(footprints, Min(PLAYER_SLOTS, m))
            /\ Len(playerTrail) = PLAYER_SLOTS <=> m >= PLAYER_SLOTS

\* the scenario has run to its last footprint on the desktop configuration
\* with calls close enough for the trail to be full
ScenarioWitness ==
    /\ ~isMobile
    /\ Len(footprints) = PLAYER_SLOTS + ExtraFootprints
    /\ lastSampleTime = time
    /\ Len(playerTrail) = PLAYER_SLOTS
    /\ playerTrail[1] = footprints[ExtraFootprints + 1]

----------------------------------------------------------------------------
(* Properties of Grass.update, the shader and gameLoop *)

\* C11 as stated (no error): no call of update raises an error to its
\* caller, whatever the length of the cubePositions list it is given.
NoErrorRaised == ret # "threw"

\* slot s (1-based) of the packed arrays holds the sentinel
IsSentinel(s) == SlotHolds(s, SENTINEL_POS, SENTINEL_POS, SENTINEL_AGE)

\* C12 as stated (refreshed every frame): after every call at time now each
\* packed slot is a sentinel or holds an entry of one of the trails with the
\* stored age now - t >= 0.
PackedRefreshed ==
    \A s \in 1..TRAIL_SIZE :
        \/ IsSentinel(s)
        \/ \E i \in 1..Len(playerTrail) :
              /\ time - playerTrail[i].t >= 0
              /\ SlotHolds(s, playerTrail[i].x, playerTrail[i].z, time - playerTrail[i].t)
        \/ \E j \in 1..Len(cubeTrail) :
              /\ time - cubeTrail[j].t >= 0
              /\ SlotHolds(s, cubeTrail[j].x, cubeTrail[j].z, time - cubeTrail[j].t)

\* C13 (frame ordering): in every frame the phases run in the order physics,
\* grass.update, render, each once; when grass.update has run, its upload
\* has written all TRAIL_SIZE slots for the time of this frame and only then
\* raised the flags; the shader of the render runs on those arrays.
FrameOrdering ==
    /\ frameLog \in {<<>>, <<"physics">>, <<"physics", "grass">>,
                     <<"physics", "grass", "render">>}
    /\ Len(frameLog) >= 2 =>
          /\ ret = "done"
          /\ time = elapsedTime
          /\ uploadTime = elapsedTime
          /\ written = TRAIL_SIZE
          /\ needsUpdate
    /\ needsUpdate => written = TRAIL_SIZE
    /\ Len(frameLog) = 2 => bladePosition = Null
    /\ Len(frameLog) = 3 => bladePosition # Null

\* a frame has run to its end with entries of both trails in the arrays the
\* render saw
FrameWitness ==
    /\ pc = 0
    /\ frameLog = <<"physics", "grass", "render">>
    /\ Len(playerTrail) >= 1
    /\ Len(cubeTrail) >= 1
    /\ totalPush # <<0, 0>>

\* C14 (sentinel neutrality): in every run of the shader, every slot that
\* holds the sentinel (written by the upload or there from the start) has
\* weight 0 and contribution (0, 0), wherever the blade is; when every slot
\* is a sentinel totalPush stays (0, 0).
SentinelNeutral ==
    bladePosition # Null =>
        /\ \A s \in 1..TRAIL_SIZE :
              IsSentinel(s) =>
                  /\ contributions[s].weight = 0
                  /\ contributions[s].contribution = <<0, 0>>
        /\ (\A s \in 1..TRAIL_SIZE : IsSentinel(s)) => totalPush = <<0, 0>>

\* the shader ran for a blade where the sentinel lies, on arrays with a
\* sentinel written by an upload behind a footprint: the spatial falloff of
\* the sentinel slot is not 0 there
SentinelWitness ==
    /\ bladePosition = <<SENTINEL_POS, SENTINEL_POS>>
    /\ ret = "done"
    /\ ~IsSentinel(1)
    /\ IsSentinel(TRAIL_SIZE)
    /\ contributions[TRAIL_SIZE].spatialFalloff > 0

\* the first slot among those of largest contribution
FirstLargest ==
    CHOOSE b \in 1..TRAIL_SIZE :
        /\ \A s \in 1..TRAIL_SIZE :
              LengthSq(contributions[s].contribution) <= LengthSq(contributions[b].contribution)
        /\ \A s \in 1..(b - 1) :
              LengthSq(contributions[s].contribution) < LengthSq(contributions[b].contribution)

\* C15 (max-selection blending): totalPush is the contribution of one slot,
\* the first in index order among those of largest contribution, and (0, 0)
\* when every slot has weight 0.
MaxSelection ==
    bladePosition # Null =>
        /\ totalPush = contributions[FirstLargest].contribution
        /\ (\A s \in 1..TRAIL_SIZE : contributions[s].weight = 0) => totalPush = <<0, 0>>

\* two slots contribute, the larger contribution is not in the first slot,
\* and totalPush is not the sum
MaxSelectionWitness ==
    /\ bladePosition # Null
    /\ FirstLargest > 1
    /\ contributions[1].contribution # <<0, 0>>
    /\ totalPush # KeepSum(contributions[1].contribution,
                           contributions[FirstLargest].contribution)

\* C16 (max-selection bound): every weight lies in [0, 1], every
\* contribution is at most 1 long and the displacement totalPush *
\* playerStrength * tipness is at most playerStrength long.
MaxSelectionBound ==
    bladePosition # Null =>
        /\ \A s \in 1..TRAIL_SIZE :
              /\ contributions[s].weight \in 0..WeightOne
              /\ LengthSq(contributions[s].contribution) <= WeightOne * WeightOne
        /\ \A tipness \in {0, 1} :
              LengthSq(ClampedPush(totalPush, tipness))
                  <= ((playerStrength * WeightOne) \div StrengthOne)
                     * ((playerStrength * WeightOne) \div StrengthOne)

\* two slots contribute more than half the full weight each at a blade
BoundWitness ==
    /\ bladePosition # Null
    /\ \E s1, s2 \in 1..TRAIL_SIZE :
          /\ s1 # s2
          /\ 2 * contributions[s1].weight > WeightOne
          /\ 2 * contributions[s2].weight > WeightOne
          /\ contributions[s1].contribution # <<0, 0>>
          /\ contributions[s2].contribution # <<0, 0>>

\* C17 (temporal falloff shape): the time falloff of a slot is 1 for every
\* age <= HOLD_TIME, does not grow with the age, and the edges of its window
\* are HOLD_TIME and HOLD_TIME + FADE_TIME, the totalTime of the recorder.
TemporalShape ==
    /\ FADE_START = HOLD_TIME
    /\ FADE_END = totalTime
    /\ bladePosition # Null =>
          /\ \A s \in 1..TRAIL_SIZE :
                /\ trailAges[s] <= HOLD_TIME => contributions[s].timeFalloff = FalloffOne
                /\ trailAges[s] >= HOLD_TIME + FADE_TIME => contributions[s].timeFalloff = 0
          /\ \A s1, s2 \in 1..TRAIL_SIZE :
                trailAges[s1] <= trailAges[s2] =>
                    contributions[s1].timeFalloff >= contributions[s2].timeFalloff

\* two slots of different ages inside the fade window, the older one weaker
TemporalWitness ==
    /\ bladePosition # Null
    /\ \E s1, s2 \in 1..TRAIL_SIZE :
          /\ HOLD_TIME < trailAges[s1]
          /\ trailAges[s1] < trailAges[s2]
          /\ trailAges[s2] < HOLD_TIME + FADE_TIME
          /\ contributions[s1].timeFalloff < FalloffOne
          /\ contributions[s1].timeFalloff > contributions[s2].timeFalloff
          /\ contributions[s2].timeFalloff > 0

\* C18 as stated (scenario 1): on a fresh Grass, after a grounded update at
\* (0, 0) at t = 0, the shader gives the blade at (0.5, 0) a nonzero push
\* whose x component is negative.
ScenarioOneAsStated ==
    (time = 0 /\ ret = "done" /\ args.playerPos = <<0, 0>> /\ args.onGround
     /\ bladePosition = <<5, 0>>) =>
        (totalPush # <<0, 0>> /\ totalPush[1] < 0)

\* C18 as amended: a first footprint at (0, 0) is recorded by a grounded
\* update later than SAMPLE_INTERVAL (an update at t = 0 records nothing);
\* as long as its age in the packed arrays is at most HOLD_TIME and it is
\* the only entry, the blade at (0.5, 0) gets a nonzero push along x alone
\* whose x component is positive, away from the footprint.
ScenarioOneAmended ==
    /\ (time <= SAMPLE_INTERVAL) => footprints = <<>>
    /\ (bladePosition = <<5, 0>> /\ ret = "done" /\ Len(footprints) = 1
        /\ cubeTrail = <<>> /\ footprints[1].x = 0 /\ footprints[1].z = 0
        /\ time - footprints[1].t <= HOLD_TIME) =>
          /\ footprints[1].t > SAMPLE_INTERVAL
          /\ playerTrail = footprints
          /\ totalPush[1] > 0
          /\ totalPush[2] = 0
          /\ ClampedPush(totalPush, 1)[1] > 0

\* the footprint at (0, 0) was recorded by this very call and the shader
\* has run for the blade at (0.5, 0)
ScenarioOneWitness ==
    /\ bladePosition = <<5, 0>>
    /\ ret = "done"
    /\ footprints = <<Entry(0, 0, time)>>
    /\ cubeTrail = <<>>
    /\ totalPush[1] > 0

\* C19 as stated (scenario 2): a footprint whose age is HOLD_TIME +
\* FADE_TIME or more contributes (0, 0) at every blade, whether it is still
\* in the packed arrays or not.  (The footprint of a slot was recorded at
\* the time of the upload minus the stored age.)
FadedFootprintSilent ==
    bladePosition # Null =>
        \A s \in 1..TRAIL_SIZE :
            (~IsSentinel(s) /\ (time - uploadTime) + trailAges[s] >= HOLD_TIME + FADE_TIME) =>
                contributions[s].contribution = <<0, 0>>

\* C20 (idle cube channel): after any calls of update every position of
\* cubePosNode still holds 99999, and the cube loop of the shader leaves
\* cubePush (0, 0), so this channel displaces nothing.
CubeChannelIdle ==
    /\ cubePos = [i \in 1..(2 * CUBE_COUNT) |-> SENTINEL_POS]
    /\ cubePush = <<0, 0>>
    /\ \A tipness \in {0, 1} : ClampedCubePush(cubePush, tipness) = <<0, 0>>

\* a frame was rendered for the blade at (0, 0) with a cube of the wall at
\* that very place, after cubes have moved
CubeChannelWitness ==
    /\ pc = 0
    /\ frameLog = <<"physics", "grass", "render">>
    /\ bladePosition = <<0, 0>>
    /\ \E i \in 1..Len(args.cubePositions) : args.cubePositions[i] = <<0, 0>>
    /\ Len(cubeTrail) >= 1

----------------------------------------------------------------------------
(* Properties of the state manager, the echoes and the input handlers *)

\* C22 as stated: after every updateState call roomEnergy equals
\* movementIntensity - idleTimer clamped to [-1, 1].
EnergyIsClampedDifference ==
    roomEnergy = ClampedUnscaled(movementIntensity - idleTimer)

\* C23 as stated (narrative objective): once maxHeightReached exceeds
\* CLIMB_THRESHOLD the game eventually leaves the phase 'playing' with the
\* ending flag set.
ClimbTriggersEnding ==
    (maxHeightReached > CLIMB_THRESHOLD) ~> (phase # "playing" /\ ending)

\* C30 (state-manager invariants): after any calls of updateState with
\* dt >= 0, roomEnergy is within [-1, 1], movementIntensity and idleTimer
\* are not negative, elapsedTime, totalDistanceTravelled and
\* maxHeightReached never decrease, and in one call movementIntensity
\* increases only when speed > INTENSITY_THRESHOLD and idleTimer only when
\* it is not.
StateInvariants ==
    /\ [](/\ roomEnergy >= -RoomOne
          /\ roomEnergy <= RoomOne
          /\ movementIntensity >= 0
          /\ idleTimer >= 0)
    /\ [][/\ stateElapsedTime' >= stateElapsedTime
          /\ totalDistanceTravelled' >= totalDistanceTravelled
          /\ maxHeightReached' >= maxHeightReached
          /\ movementIntensity' > movementIntensity => speedArg' > INTENSITY_THRESHOLD
          /\ idleTimer' > idleTimer => ~(speedArg' > INTENSITY_THRESHOLD)]_vars

\* the player has climbed, has walked at the threshold speed without
\* building intensity, and has then run until roomEnergy reached 1
StateWitness ==
    /\ roomEnergy = RoomOne
    /\ maxHeightReached > CLIMB_THRESHOLD
    /\ totalDistanceTravelled > 0
    /\ idleTimer = 0
    /\ stateElapsedTime > StateBurst

\* the meshes of the active echoes
ActiveMeshes == {echoes[k].mesh : k \in 1..Len(echoes)}

\* every cleanup call has run n times on the objects of echo m
CleanedTimes(m, n) ==
    cleanups[m] = [sceneRemove |-> n, geometryDispose |-> n, materialDispose |-> n,
                   removeRigidBody |-> n]

\* echo m is off the active list, its mesh out of the scene, its geometry
\* and material disposed and its rigid body out of the world, each once
RemovedOnce(m) ==
    /\ m \in 1..spawned
    /\ m \notin ActiveMeshes
    /\ m \notin sceneMeshes
    /\ m \notin worldBodies
    /\ CleanedTimes(m, 1)

\* C24 (echo lifecycle liveness): while tick keeps being called with a
\* positive dt and advancing elapsed time, every echo spawnManualEcho has
\* created is eventually removed from the active list, and from its
\* removal on its mesh is out of the scene, its geometry and material are
\* disposed and its rigid body is out of the world, each exactly once; an
\* echo still active has had no cleanup.
EchoLifecycle ==
    /\ [](\A m \in 1..spawned :
             \/ RemovedOnce(m)
             \/ /\ m \in ActiveMeshes
                /\ m \in sceneMeshes
                /\ m \in worldBodies
                /\ CleanedTimes(m, 0))
    /\ \A m \in 1..LiveEchoes : (spawned >= m) ~> RemovedOnce(m)

\* echoes spawned at different times have all been removed
EchoLifecycleWitness ==
    /\ spawned > 1
    /\ echoes = <<>>
    /\ \A m \in 1..spawned : RemovedOnce(m)
    /\ stateElapsedTime > ECHO_LIFETIME + EchoSpawnWindow

\* C25 as stated: the number of active echoes never exceeds
\* MAX_BUFFER_SIZE, after any spawnManualEcho and tick calls.
EchoBufferBounded == Len(echoes) <= MAX_BUFFER_SIZE

\* what one tick at time now with delta dt makes of an echo: its opacity
\* rises by dt / 4 up to 1 before ECHO_LIFETIME and falls by dt / 3 from
\* ECHO_LIFETIME on
TickedOpacity(echo, now, dt) ==
    IF now - echo.spawnTime >= ECHO_LIFETIME THEN echo.opacity - 4 * dt
    ELSE IF echo.opacity + 3 * dt > OpacityOne THEN OpacityOne
    ELSE echo.opacity + 3 * dt

\* C29 (echo removal safety): an echo leaves the active list only at an age
\* of ECHO_LIFETIME or more, and a tick treats every echo of the list once:
\* the list after it holds, in the same order, exactly the echoes whose
\* opacity after this tick is above 0 or whose age is below ECHO_LIFETIME,
\* each with the opacity of this tick.
EchoRemovalSafety ==
    [][LET now == stateElapsedTime'
           dt == stateElapsedTime' - stateElapsedTime
           ticked == [k \in 1..Len(echoes) |->
                         [echoes[k] EXCEPT !.opacity = TickedOpacity(echoes[k], now, dt)]]
           Stays(echo) == ~(now - echo.spawnTime >= ECHO_LIFETIME /\ echo.opacity <= 0)
       IN  /\ \A k \in 1..Len(echoes) :
                  echoes[k].mesh \notin {echoes'[j].mesh : j \in 1..Len(echoes')} =>
                      now - echoes[k].spawnTime >= ECHO_LIFETIME
           /\ spawned' = spawned => echoes' = SelectSeq(ticked, Stays)]_vars

\* the oldest echo has been removed in a tick that faded the younger ones
\* behind it, which are still there
EchoRemovalWitness ==
    /\ Len(echoes) = 2
    /\ echoes[1].mesh = 2
    /\ spawned = 3
    /\ echoes[1].spawnTime < echoes[2].spawnTime
    /\ echoes[1].opacity < echoes[2].opacity
    /\ echoes[2].opacity < OpacityOne
    /\ RemovedOnce(1)

\* C26 as stated (one echo per key press): spawnManualEcho is never called
\* more often than KeyE was pressed, and once a frame has run with the key
\* up again and KEYS.KeyE consumed it has been called exactly once per
\* press, whatever the number of sub-steps of the frames.
OneEchoPerPress ==
    /\ spawned <= presses
    /\ ("KeyE" \notin held /\ ~KEYS["KeyE"] /\ event.type = "frame") => spawned = presses

\* C27 as stated (spawner press consumption): during one continuous hold of
\* Enter, SpawnerZone.update spawns at most one batch of 3 cubes, wherever
\* the player goes during the hold.
OneBatchPerHold == holdBatches <= 1

\* C28 (possession state machine): player.isFrozen is true exactly when
\* isPossessingQueen is; possession starts only on an Enter keydown
\* received while chessZone.isPlayerInside is true and possession is off,
\* ends only on an Escape keydown received while possession is on, and an
\* Enter keydown while possessing changes nothing of it.
PossessionMachine ==
    /\ [](isFrozen <=> isPossessingQueen)
    /\ [][/\ (isPossessingQueen' /\ ~isPossessingQueen) =>
                 (event' = [type |-> "keydown", code |-> "Enter"] /\ chessInside)
          /\ (~isPossessingQueen' /\ isPossessingQueen) =>
                 event' = [type |-> "keydown", code |-> "Escape"]
          /\ (event' = [type |-> "keydown", code |-> "Enter"] /\ isPossessingQueen) =>
                 UNCHANGED <<isPossessingQueen, isFrozen, cameraMode>>]_vars

\* Enter has been pressed again during a possession, with the player out
\* of the chess zone by then
PossessionWitness ==
    /\ isPossessingQueen
    /\ isFrozen
    /\ cameraMode = "topdown"
    /\ event = [type |-> "keydown", code |-> "Enter"]
    /\ ~chessInside
    /\ holds > 1

\* C21 (stable cube list): the list of the wall has the same length and the
\* same body at each index in every frame, the positions passed to
\* grass.update are those of these bodies index by index, and the position
\* _cubeLastPos remembers at an index is one of the body at that index.
StableCubeList ==
    /\ wallCubes = WallBodies
    /\ (args.cubePositions # Null /\ Phase # "grass") =>
           args.cubePositions = [i \in 1..Len(WallBodies) |-> translation[WallBodies[i]]]
    /\ cubeLastPos # Null => cubeLastOwner = wallCubes

\* frames have run in which the first cube of the wall has moved and the
\* others have not: its remembered position has been replaced, theirs kept
StableCubeListWitness ==
    /\ pc = 2
    /\ elapsedTime > 2
    /\ cubeLastPos # Null
    /\ cubeLastPos[1] = <<0, 4>>
    /\ \A i \in 2..Len(cubeLastPos) : cubeLastPos[i] = <<0, 0>>
    /\ Len(cubeTrail) > 0
    /\ cubeLastOwner = WallBodies

----------------------------------------------------------------------------
(* Properties of the sub-step loop, the particle ring and the joystick *)

\* ceil(0.1 / TIMESTEP)
CapSubSteps == (DT_CAP + TIMESTEP - 1) \div TIMESTEP

\* C31: at the end of every frame 0 <= physicsAccumulator < TIMESTEP; the
\* calls of the sub-step loop of a frame are player.update and world.step in
\* turns, player.update first, as many of the one as of the other; the loop
\* ends after at most ceil(0.1 / TIMESTEP) + 1 rounds.
AccumulatorBounded ==
    /\ 0 <= physicsAccumulator
    /\ physicsAccumulator < TIMESTEP
    /\ Len(calls) % 2 = 0
    /\ \A i \in 1..Len(calls) :
           calls[i] = IF i % 2 = 1 THEN "player.update" ELSE "world.step"
    /\ Len(calls) \div 2 <= CapSubSteps + 1

\* a frame whose delta was capped ran CapSubSteps rounds and left half a
\* TIMESTEP
AccumulatorWitness ==
    /\ event.type = "frame"
    /\ Len(calls) = 2 * CapSubSteps
    /\ physicsAccumulator = 1

\* C38: while the queen is possessed (player.isFrozen set) the Player.update
\* calls of a frame build no move direction from the pressed keys and throw
\* no punch.
FrozenPlayerStill ==
    (event.type = "frame" /\ isPossessingQueen /\ isFrozen) => (~moved /\ ~punched)

\* C32: particleIndex stays within 0 .. maxParticles - 1; an emit(count)
\* call writes the min(count, 50) slots that follow the previous
\* particleIndex, wrapping at maxParticles, advances particleIndex by that
\* number modulo maxParticles and leaves every other slot as it was.
ParticleRing ==
    /\ [](particleIndex \in 0..(maxParticles - 1))
    /\ [][emitted' # emitted =>
             LET n == Min(emitted'.count, 50)
             IN  /\ emitted'.index = particleIndex
                 /\ particleIndex' = (particleIndex + n) % maxParticles
                 /\ \A slot \in 0..(maxParticles - 1) :
                        StartTime(startTimes', slot) =
                            IF (slot - particleIndex) % maxParticles < n
                            THEN emitted'.time
                            ELSE StartTime(startTimes, slot)]_vars

\* an emission of 50 particles went over the end of the ring, after calls
\* with fewer
ParticleRingWitness ==
    /\ emitted.index + Min(emitted.count, 50) > maxParticles
    /\ particleIndex < emitted.index
    /\ particleIndex > 0
    /\ StartTime(startTimes, 0) = emitted.time
    /\ StartTime(startTimes, maxParticles - 1) = emitted.time

\* the direction codes of the joystick
Directions == {"ArrowUp", "ArrowDown", "ArrowLeft", "ArrowRight"}

\* the events of a sequence that carry the code
OfCode(events, code) == SelectSeq(events, LAMBDA e : e.code = code)

----------------------------------------------------------------------------
(* Further properties of Grass.update *)

\* the slots of the packed arrays that hold no sentinel
LiveSlots == {s \in 1..TRAIL_SIZE : ~IsSentinel(s)}

\* C34: after every pack the number of live slots is the length of the
\* player trail plus the length of the cube trail, and every cube entry is
\* packed, behind the player entries, however full the player trail is.
AllEntriesPacked ==
    ret = "done" =>
        /\ Cardinality(LiveSlots) = Len(playerTrail) + Len(cubeTrail)
        /\ \A j \in 1..Len(cubeTrail) :
               /\ Len(playerTrail) + j <= TRAIL_SIZE
               /\ SlotHolds(Len(playerTrail) + j, cubeTrail[j].x, cubeTrail[j].z,
                            time - cubeTrail[j].t)

\* C35: the timestamps of the player trail increase, consecutive ones by
\* more than SAMPLE_INTERVAL; the newest timestamp of a non-empty player
\* trail is the last-sample time; a non-empty player trail never becomes
\* empty again.
PrimaryOrdering ==
    /\ [](/\ \A i \in 1..(Len(playerTrail) - 1) :
                 playerTrail[i + 1].t - playerTrail[i].t > SAMPLE_INTERVAL
          /\ playerTrail # <<>> => playerTrail[Len(playerTrail)].t = lastSampleTime)
    /\ [][playerTrail # <<>> => playerTrail' # <<>>]_vars

\* the player trail holds two entries after an older one was dropped, and
\* calls have been made since the last sample
PrimaryOrderingWitness ==
    /\ Len(playerTrail) = 2
    /\ Len(footprints) > 2
    /\ playerTrail[2].t = lastSampleTime
    /\ time > lastSampleTime

\* the entries of a trail
Entries(trail) == {trail[i] : i \in 1..Len(trail)}

\* the entry leaves the trail in this step and the trail is not left
\* truncated to its capacity with newer entries only
LeavesByAge(entry, before, after, capacity) ==
    /\ entry \in Entries(before)
    /\ entry \notin Entries(after)
    /\ ~(Len(after) >= capacity /\ \A k \in 1..Len(after) : after[k].t >= entry.t)

\* C36: an entry that leaves a trail other than by capacity truncation is
\* HOLD_TIME + FADE_TIME old or older at that call, where its temporal
\* falloff in the shader is 0.
InfluenceOutlivesPruning ==
    [][/\ \A e \in Entries(playerTrail) :
              LeavesByAge(e, playerTrail, playerTrail', PLAYER_SLOTS) =>
                  /\ time' - e.t >= HOLD_TIME + FADE_TIME
                  /\ TimeFalloff(time' - e.t) = 0
       /\ \A e \in Entries(cubeTrail) :
              LeavesByAge(e, cubeTrail, cubeTrail', CUBE_SLOTS) =>
                  /\ time' - e.t >= HOLD_TIME + FADE_TIME
                  /\ TimeFalloff(time' - e.t) = 0]_vars

\* the call dropped a footprint by its age, from a player trail below its
\* capacity
InfluenceWitness ==
    /\ ret = "done"
    /\ lastSampleTime = time
    /\ Len(playerTrail) < PLAYER_SLOTS
    /\ \E k \in 1..Len(footprints) :
           /\ footprints[k] \notin Entries(playerTrail)
           /\ time - footprints[k].t >= HOLD_TIME + FADE_TIME + PRUNE_MARGIN

\* C37 as stated: the first call that carries cube positions appends no
\* cube entry and leaves the remembered positions at the positions it was
\* passed; the first entry for an index is appended only in a later call in
\* which the cube is beyond the threshold from the position that first call
\* carried for it.
FirstCubeCallAsStated ==
    /\ [][(cubeFirstPos = Null /\ args'.cubePositions # Null) =>
             /\ cubeTrail' = cubeTrail
             /\ cubeLastPos' = args'.cubePositions]_vars
    /\ [][\A i \in cubePushed' \ cubePushed :
             /\ cubeFirstPos # Null
             /\ DistanceSq(args'.cubePositions[i], cubeFirstPos[i]) > MOVE_THRESHOLD_SQ]_vars

\* C37 as amended: the first call that carries cube positions together
\* with a player position appends no cube entry and leaves the remembered
\* positions at the positions it was passed; the first entry for an index is
\* appended only in a later call in which the cube is beyond the threshold
\* from the position that call carried for it.  (A call without a player
\* position returns before the cube positions are looked at.)
FirstCubeCallAmended ==
    /\ [][(cubeLastPos = Null /\ args'.cubePositions # Null /\ args'.playerPos # Null) =>
             /\ cubeTrail' = cubeTrail
             /\ cubeLastPos' = args'.cubePositions
             /\ cubeStartPos' = args'.cubePositions]_vars
    /\ [][\A i \in cubePushed' \ cubePushed :
             /\ cubeLastPos # Null
             /\ cubeLastPos[i] = cubeStartPos[i]
             /\ DistanceSq(args'.cubePositions[i], cubeStartPos[i]) > MOVE_THRESHOLD_SQ]_vars

\* a call without a player position carried cube positions first; the
\* remembered positions were initialised by a later call, to other
\* positions, and a first entry was then pushed for a cube back where the
\* first call had it
FirstCubeCallWitness ==
    /\ cubeFirstPos # Null
    /\ cubeStartPos # Null
    /\ cubeFirstPos # cubeStartPos
    /\ ret = "done"
    /\ cubePushed = {1}
    /\ args.cubePositions[1] = cubeFirstPos[1]
    /\ Len(cubeTrail) = 1
    /\ cubeTrail[1] = Entry(cubeStartPos[1][1], cubeStartPos[1][2], time)

====
